---- MODULE Spec2Model ----
(***************************************************************************)
(* Albatross validator core: the reward pot, the block producer, the       *)
(* fork-proof pool, the signature aggregator, the validator agent and the  *)
(* validator orchestrator, each as a state machine over its own variables. *)
(***************************************************************************)
EXTENDS Integers, Sequences, FiniteSets, TLC

VARIABLES
    \* ---- reward pot (reward_registry/reward_pot.rs) ----
    reward_pot,      \* the RewardPot database: a function from the keys written so far to u64
    rp_slots,        \* the Slots of the current epoch (only slash_fine matters here)
    rp_next,         \* block number of the next block the chain applies
    rp_applied,      \* micro blocks applied and not reverted since the last macro block
    rp_op,           \* the last operation run on the pot
    rp_arg,          \* its arguments
    rp_before,       \* the database before the last operation
    rp_closed,       \* the micro blocks of the epoch closed by the last operation (commit_macro_block)
    \* ---- block producer (block-production-albatross/src/lib.rs) ----
    pr_chain,        \* the blockchain the producer reads: its head and macro head
    pr_op,           \* the last producer call
    pr_in,           \* its arguments and the head it read
    pr_out,          \* the header it returned
    \* ---- fork-proof pool (ValidatorState.fork_proof_pool, validator.rs) ----
    fork_proof_pool, \* the pending fork proofs
    pool_op,         \* the last handler that touched the pool
    pool_arg,        \* its argument
    pool_before,     \* the pool before it ran
    pool_trip,       \* Some([pool, block]) when the last handler reverted the block applied just before
    \* ---- signature aggregator (handel) ----
    ag_registry,     \* the identity registry: the slot count of each validator index
    ag_signers,      \* the validator indices whose signature is in the aggregate
    ag_events,       \* the completion events fired so far
    ag_fed,          \* the contributions fed so far, in order
    \* ---- blockchain and network as the validator sees them ----
    blockchain,      \* [head, macro_head, validators, staked]: the chain's main branch
    net_pbft,        \* the validator network's PBFT rounds: header -> phase
    \* ---- validator (validator/src/validator.rs) ----
    state,           \* ValidatorState but for its fork_proof_pool: [status, pk_idx, slots,
                     \* view_number, active_view_change, proposed_extrinsics]
    \* ---- validator: spawned tasks, outputs, bookkeeping ----
    tasks,           \* tasks handed to the executor and not finished, in spawn order
    sent,            \* what this validator has signed and handed to the validator network
    macro_pushed,    \* the headers of the macro blocks this validator has pushed, in order
    macro_block,     \* the macro block on_pbft_commit_complete has assembled and not yet pushed
    panicked,        \* the process has panicked
    \* ---- validator agent (validator/src/validator_agent.rs) ----
    pbft_proposal_limit,  \* proposals counted in the rate limiter's current window
    agent_forwarded,      \* the proposals forwarded as ValidatorAgentEvent::PbftProposal
    last_accept,          \* the last proposal forwarded or prepared, and those accepted before it
    agent_log,            \* the peer's proposals in the limiter's current window: received, forwarded
    \* ---- micro body assembly (BlockProducer::next_micro_extrinsics) ----
    ex_in,           \* the call's inputs: fork proofs, extra data, the mempool's transactions
    ex_out,          \* None, or what the call returned and the size it tracked
    \* ---- block producer over the chain's store (block-production-albatross) ----
    db_store,        \* the persistent state: chain heads, reward pot, accounts, slots
    db_txn,          \* None, or the scratch write transaction's view of pot and accounts
    db_pc,           \* where next_macro_block_proposal stands: "idle", "opened",
                     \* "dummy_committed", "accounts_committed", or "panicked"
    db_op,           \* the last operation that took a step
    db_in,           \* the inputs of the call in progress
    db_out,          \* None, or what the last producer call returned
    db_pushed,       \* None, or the macro block handed to push_block last and the result
    \* ---- the validator's state lock (validator/src/validator.rs) ----
    lk_thread,       \* per executor thread: the handler it runs and the step it is at
    lk_state,        \* the RwLock<ValidatorState>: its writer (None or a thread), its readers
    lk_chain,        \* the blockchain's push lock: None, or the thread that holds it
    \* ---- isolated macro sync (blockchain-albatross/tests/macro_block_sync.rs) ----
    sync_a,          \* the store of chain A, on which the blocks are produced
    sync_macros,     \* the macro blocks chain A has accepted, in order
    sync_fetched,    \* None, or the macro blocks retrieved from A and not yet handled
    sync_b,          \* chain B: its head and macro head
    sync_results,    \* the results of the pushes onto B, in order
    sync_skipped,    \* a retrieved block was left out before a later one was pushed
    \* ---- validator agent: inbound view-change updates (validator_agent.rs) ----
    vcm_block_number, \* blockchain.block_number(): the head's block number
    vcm_event,        \* None, or the ValidatorAgentEvent::ViewChange notified for it
    vcm_last,         \* None, or the last update received
    \* ---- validator: dispatch of validator-network events (validator.rs) ----
    nd_chain,        \* the chain as the handlers read it: head, validators, staked
    nd_state,        \* ValidatorState, fork_proof_pool included
    nd_event,        \* None, or the event that has passed the status check of
                     \* on_validator_network_event and whose handler has not run yet
    nd_sent,         \* what the handlers have signed and handed to the validator network
    nd_blocks,       \* the hashes of the macro blocks on_pbft_commit_complete has pushed
    nd_tasks,        \* production tasks spawned and not yet run
    nd_panicked,     \* a production task has panicked
    \* ---- validator: the blockchain listener's tasks (validator.rs) ----
    ev_chain,        \* the blocks of the main chain above the last macro block
    ev_tasks,        \* the events whose spawned task has not run yet, in emission order
    ev_pool,         \* state.fork_proof_pool
    ev_sequential,   \* the pool after the events emitted so far, applied in order
    \* ---- reward pot: an epoch committed block by block and at once (reward_pot.rs) ----
    ce_in,           \* the epoch: the store before it, its Slots, its micro and macro block
    ce_out           \* None, or the store after the blocks and the store after commit_epoch

rp_vars == <<reward_pot, rp_slots, rp_next, rp_applied, rp_op, rp_arg, rp_before, rp_closed>>

pr_vars == <<pr_chain, pr_op, pr_in, pr_out>>

pool_vars == <<fork_proof_pool, pool_op, pool_arg, pool_before, pool_trip>>

ag_vars == <<ag_registry, ag_signers, ag_events, ag_fed>>

pool_ghost == <<pool_op, pool_arg, pool_before, pool_trip>>

chain_vars == <<blockchain, net_pbft>>

task_vars == <<tasks, sent, macro_pushed, macro_block, panicked>>

agent_vars == <<pbft_proposal_limit, agent_forwarded, last_accept, agent_log>>

v_vars == <<chain_vars, state, task_vars, agent_vars>>

ex_vars == <<ex_in, ex_out>>

db_vars == <<db_store, db_txn, db_pc, db_op, db_in, db_out, db_pushed>>

\* The variables of the components added after the validator
lk_vars == <<lk_thread, lk_state, lk_chain>>

sync_vars == <<sync_a, sync_macros, sync_fetched, sync_b, sync_results, sync_skipped>>

vcm_vars == <<vcm_block_number, vcm_event, vcm_last>>

nd_vars == <<nd_chain, nd_state, nd_event, nd_sent, nd_blocks, nd_tasks, nd_panicked>>

ev_vars == <<ev_chain, ev_tasks, ev_pool, ev_sequential>>

ce_vars == <<ce_in, ce_out>>

x_vars == <<ex_vars, db_vars, lk_vars, sync_vars, vcm_vars, nd_vars, ev_vars, ce_vars>>

vars == <<rp_vars, pr_vars, pool_vars, ag_vars, v_vars, x_vars>>

rp_others == <<pr_vars, pool_vars, ag_vars, v_vars, x_vars>>

pr_others == <<rp_vars, pool_vars, ag_vars, v_vars, x_vars>>

pool_others == <<rp_vars, pr_vars, ag_vars, v_vars, x_vars>>

ag_others == <<rp_vars, pr_vars, pool_vars, v_vars, x_vars>>

v_others == <<rp_vars, pr_vars, ag_vars, pool_ghost, x_vars>>

base_vars == <<rp_vars, pr_vars, pool_vars, ag_vars, v_vars>>

ex_others == <<base_vars, db_vars, lk_vars, sync_vars, vcm_vars, nd_vars, ev_vars, ce_vars>>

db_others == <<base_vars, ex_vars, lk_vars, sync_vars, vcm_vars, nd_vars, ev_vars, ce_vars>>

lk_others == <<base_vars, ex_vars, db_vars, sync_vars, vcm_vars, nd_vars, ev_vars, ce_vars>>

sync_others == <<base_vars, ex_vars, db_vars, lk_vars, vcm_vars, nd_vars, ev_vars, ce_vars>>

vcm_others == <<base_vars, ex_vars, db_vars, lk_vars, sync_vars, nd_vars, ev_vars, ce_vars>>

nd_others == <<base_vars, ex_vars, db_vars, lk_vars, sync_vars, vcm_vars, ev_vars, ce_vars>>

ev_others == <<base_vars, ex_vars, db_vars, lk_vars, sync_vars, vcm_vars, nd_vars, ce_vars>>

ce_others == <<base_vars, ex_vars, db_vars, lk_vars, sync_vars, vcm_vars, nd_vars, ev_vars>>

\* ------------------------------------------------------------------
\* Helpers
\* ------------------------------------------------------------------

\* Option<T>: None is the empty sequence, Some(v) the sequence of v alone
None == <<>>

Some(v) == <<v>>

Last(s) == s[Len(s)]

Front(s) == SubSeq(s, 1, Len(s) - 1)

RECURSIVE SeqSum(_)
SeqSum(s) == IF s = <<>> THEN 0 ELSE s[1] + SeqSum(Tail(s))

Max(a, b) == IF a >= b THEN a ELSE b

\* The width of the u32 fields (view and block numbers), scaled from 32 to 16
\* bits: the model checker's integers are 32 bits wide.
U32Modulus == 2^16

\* u32 subtraction as the release build computes it (the debug build panics when a < b)
U32Sub(a, b) == (a - b + U32Modulus) % U32Modulus

\* ------------------------------------------------------------------
\* Bounds and sample inputs
\* ------------------------------------------------------------------

RpMaxBlocks == 3

RpMaxView == 1

MaxForkProofs == 1

SampleTransactions == {<<>>, <<1, 3>>}

SampleSlashFines == {1, 4}

\* ------------------------------------------------------------------
\* Policy (external crate primitives::policy)
\* ------------------------------------------------------------------

block_reward_at(block_number) == IF block_number < 8 THEN 16 - 2 * block_number ELSE 1

\* policy::SLOTS and policy::TWO_THIRD_SLOTS = ceil(2 * SLOTS / 3)
SLOTS == 4

TWO_THIRD_SLOTS == (2 * SLOTS + 2) \div 3

\* ------------------------------------------------------------------
\* Reward pot
\* ------------------------------------------------------------------

CURRENT_EPOCH_KEY == "curr"

PREVIOUS_EPOCH_KEY == "prev"

\* txn.get(&db, key): Option<u64>
TxnGet(db, key) == IF key \in DOMAIN db THEN Some(db[key]) ELSE None

\* txn.put(&db, key, &value)
TxnPut(db, key, value) == [k \in (DOMAIN db) \cup {key} |-> IF k = key THEN value ELSE db[k]]

unwrap_or(opt, default) == IF opt = None THEN default ELSE opt[1]

reward_for_micro_block_no_slashes(block, slots, prev_view_number) ==
    block_reward_at(block.block_number) + SeqSum(block.transactions)

reward_for_micro_block(block, slots, prev_view_number) ==
    LET base   == block_reward_at(block.block_number)
        fees   == SeqSum(block.transactions)
        forks  == slots.slash_fine * block.fork_proofs
        views  == slots.slash_fine * U32Sub(block.view_number, prev_view_number)
    IN  base + fees + forks + views

reward_for_macro_block(block, slots, prev_view_number) ==
    block_reward_at(block.block_number)
        + slots.slash_fine * U32Sub(block.view_number, prev_view_number)

commit_macro_block_keep_current(db, block, slots, prev_view_number) ==
    LET current_reward == reward_for_macro_block(block, slots, prev_view_number)
                              + unwrap_or(TxnGet(db, CURRENT_EPOCH_KEY), 0)
    IN  TxnPut(db, PREVIOUS_EPOCH_KEY, current_reward)

commit_macro_block(db, block, slots, prev_view_number) ==
    LET current_reward == reward_for_macro_block(block, slots, prev_view_number)
                              + unwrap_or(TxnGet(db, CURRENT_EPOCH_KEY), 0)
    IN  TxnPut(TxnPut(db, CURRENT_EPOCH_KEY, 0), PREVIOUS_EPOCH_KEY, current_reward)

commit_micro_block_overwrite(db, block, slots, prev_view_number) ==
    TxnPut(db, CURRENT_EPOCH_KEY, reward_for_micro_block(block, slots, prev_view_number))

commit_micro_block(db, block, slots, prev_view_number) ==
    LET reward == reward_for_micro_block(block, slots, prev_view_number)
                      + unwrap_or(TxnGet(db, CURRENT_EPOCH_KEY), 0)
    IN  TxnPut(db, CURRENT_EPOCH_KEY, reward)

revert_micro_block(db, block, slots, prev_view_number) ==
    LET reward == unwrap_or(TxnGet(db, CURRENT_EPOCH_KEY), 0)
                      - reward_for_micro_block(block, slots, prev_view_number)
    IN  TxnPut(db, CURRENT_EPOCH_KEY, reward)

current_reward_pot(db) == unwrap_or(TxnGet(db, CURRENT_EPOCH_KEY), 0)

previous_reward_pot(db) == unwrap_or(TxnGet(db, PREVIOUS_EPOCH_KEY), 0)

\* The view number the chain hands in as prev_view_number: the view number of
\* the last applied micro block of the epoch, 0 right after a macro block.
RpPrevView == IF rp_applied = <<>> THEN 0 ELSE Last(rp_applied).block.view_number

RpNoArg == [block |-> None, slots |-> None, prev_view_number |-> 0]

\* The pot of a chain nothing has been applied to
RpIdle ==
    /\ reward_pot = <<>>
    /\ rp_slots = [slash_fine |-> 1]
    /\ rp_next = 1
    /\ rp_applied = <<>>
    /\ rp_op = "new"
    /\ rp_arg = RpNoArg
    /\ rp_before = <<>>
    /\ rp_closed = <<>>

RpInit ==
    /\ reward_pot = <<>>
    /\ rp_slots \in [slash_fine : SampleSlashFines]
    /\ rp_next = 1
    /\ rp_applied = <<>>
    /\ rp_op = "new"
    /\ rp_arg = RpNoArg
    /\ rp_before = <<>>
    /\ rp_closed = <<>>

\* The chain applies a micro block: RewardPot::commit_micro_block
RpCommitMicro ==
    /\ rp_next <= RpMaxBlocks
    /\ \E view \in RpPrevView..RpMaxView, txs \in SampleTransactions, fps \in 0..MaxForkProofs :
          LET block == [block_number |-> rp_next, view_number |-> view,
                        transactions |-> txs, fork_proofs |-> fps]
              arg   == [block |-> block, slots |-> rp_slots, prev_view_number |-> RpPrevView]
          IN  /\ reward_pot' = commit_micro_block(reward_pot, block, rp_slots, RpPrevView)
              /\ rp_applied' = Append(rp_applied, arg)
              /\ rp_arg' = arg
    /\ rp_next' = rp_next + 1
    /\ rp_op' = "commit_micro_block"
    /\ rp_before' = reward_pot
    /\ rp_closed' = <<>>
    /\ UNCHANGED <<rp_slots, rp_others>>

\* The chain reverts its head micro block: RewardPot::revert_micro_block
RpRevertMicro ==
    /\ rp_applied # <<>>
    /\ LET arg == Last(rp_applied)
       IN  /\ reward_pot' = revert_micro_block(reward_pot, arg.block, arg.slots, arg.prev_view_number)
           /\ rp_arg' = arg
    /\ rp_applied' = Front(rp_applied)
    /\ rp_next' = rp_next - 1
    /\ rp_op' = "revert_micro_block"
    /\ rp_before' = reward_pot
    /\ rp_closed' = <<>>
    /\ UNCHANGED <<rp_slots, rp_others>>

\* The chain applies a macro block: RewardPot::commit_macro_block; the next
\* epoch's Slots come with the macro block.
RpCommitMacro ==
    /\ rp_next <= RpMaxBlocks
    /\ \E view \in RpPrevView..RpMaxView, next_slots \in [slash_fine : SampleSlashFines] :
          LET block == [block_number |-> rp_next, view_number |-> view]
              arg   == [block |-> block, slots |-> rp_slots, prev_view_number |-> RpPrevView]
          IN  /\ reward_pot' = commit_macro_block(reward_pot, block, rp_slots, RpPrevView)
              /\ rp_arg' = arg
              /\ rp_slots' = next_slots
    /\ rp_closed' = rp_applied
    /\ rp_applied' = <<>>
    /\ rp_next' = rp_next + 1
    /\ rp_op' = "commit_macro_block"
    /\ rp_before' = reward_pot
    /\ UNCHANGED rp_others

RpNext == RpCommitMicro \/ RpRevertMicro \/ RpCommitMacro

\* ------------------------------------------------------------------
\* Block producer
\* ------------------------------------------------------------------

PrMaxHeight == 3

PrMaxTime == 3

PrMaxView == 1

\* policy::BLOCKS_PER_EPOCH: every BLOCKS_PER_EPOCH-th block is a macro block
BLOCKS_PER_EPOCH == 2

is_macro_block_at(block_number) == block_number % BLOCKS_PER_EPOCH = 0

\* Blake2b over the serialized header: injective on headers
Hash(header) == <<"Blake2b", header>>

GenesisHeader ==
    [type |-> "Macro", block_number |-> 0, view_number |-> 0,
     parent_hash |-> None, timestamp |-> 1]

\* Blockchain::next_view_number: the head's view number, 0 after a macro block
next_view_number(chain) ==
    IF chain.head.type = "Micro" THEN chain.head.view_number ELSE 0

next_micro_header_raw_timestamp(chain, timestamp, view_number) ==
    [type |-> "Micro",
     block_number |-> chain.head.block_number + 1,
     view_number |-> view_number,
     parent_hash |-> Hash(chain.head),
     timestamp |-> timestamp]

next_micro_header_own_number(chain, timestamp, view_number) ==
    [type |-> "Micro",
     block_number |-> chain.head.block_number,
     view_number |-> view_number,
     parent_hash |-> Hash(chain.head),
     timestamp |-> Max(timestamp, chain.head.timestamp + 1)]

\* BlockProducer::next_micro_header, run under chain.lock() by next_micro_block
next_micro_header(chain, timestamp, view_number) ==
    LET block_number == chain.head.block_number + 1
        ts           == Max(timestamp, chain.head.timestamp + 1)
        parent_hash  == Hash(chain.head)
    IN  [type |-> "Micro",
         block_number |-> block_number,
         view_number |-> view_number,
         parent_hash |-> parent_hash,
         timestamp |-> ts]

\* BlockProducer::next_macro_header, run under chain.lock() by next_macro_block_proposal
next_macro_header(chain, timestamp, view_number) ==
    LET block_number      == chain.head.block_number + 1
        ts                == Max(timestamp, chain.head.timestamp + 1)
        parent_hash       == Hash(chain.head)
        parent_macro_hash == Hash(chain.macro_head)
    IN  [type |-> "Macro",
         block_number |-> block_number,
         view_number |-> view_number,
         parent_macro_hash |-> parent_macro_hash,
         parent_hash |-> parent_hash,
         timestamp |-> ts]

PrNoIn == [timestamp |-> 0, view_number |-> 0, head |-> None]

PrIdle ==
    /\ pr_chain = [head |-> GenesisHeader, macro_head |-> GenesisHeader]
    /\ pr_op = "new"
    /\ pr_in = PrNoIn
    /\ pr_out = None

PrInit == PrIdle

\* producer.next_micro_block(fork_proofs, timestamp, view_number, extra_data, proof)
PrNextMicroBlock ==
    /\ pr_chain.head.block_number < PrMaxHeight
    /\ \E timestamp \in 0..PrMaxTime, view_number \in 0..PrMaxView :
          /\ pr_out' = Some(next_micro_header(pr_chain, timestamp, view_number))
          /\ pr_in' = [timestamp |-> timestamp, view_number |-> view_number,
                       head |-> pr_chain.head]
    /\ pr_op' = "next_micro_block"
    /\ UNCHANGED <<pr_chain, pr_others>>

\* producer.next_macro_block_proposal(timestamp, view_number, proof)
PrNextMacroBlockProposal ==
    /\ pr_chain.head.block_number < PrMaxHeight
    /\ \E timestamp \in 0..PrMaxTime, view_number \in 0..PrMaxView :
          /\ pr_out' = Some(next_macro_header(pr_chain, timestamp, view_number))
          /\ pr_in' = [timestamp |-> timestamp, view_number |-> view_number,
                       head |-> pr_chain.head]
    /\ pr_op' = "next_macro_block_proposal"
    /\ UNCHANGED <<pr_chain, pr_others>>

\* blockchain.push of the block just produced: accepted as the new head when it
\* was built on the current head, has the type the policy asks for at its
\* number and a view number not below the chain's next view number.
PrPush ==
    /\ pr_out # None
    /\ LET header == pr_out[1]
       IN  /\ header.parent_hash = Hash(pr_chain.head)
           /\ (header.type = "Macro") = is_macro_block_at(header.block_number)
           /\ header.view_number >= next_view_number(pr_chain)
           /\ pr_chain' = [head |-> header,
                           macro_head |-> IF header.type = "Macro" THEN header
                                          ELSE pr_chain.macro_head]
    /\ pr_op' = "push"
    /\ pr_in' = PrNoIn
    /\ pr_out' = None
    /\ UNCHANGED pr_others

PrNext == PrNextMicroBlock \/ PrNextMacroBlockProposal \/ PrPush

\* ------------------------------------------------------------------
\* Micro body assembly: BlockProducer::next_micro_extrinsics
\* ------------------------------------------------------------------

\* Sizes in bytes, scaled down: MicroBlock::MAX_SIZE, MicroHeader::SIZE and
\* the fixed part of MicroExtrinsics::get_metadata_size
MICRO_BLOCK_MAX_SIZE == 9

MICRO_HEADER_SIZE == 2

EXTRINSICS_FIXED_SIZE == 1

FORK_PROOF_SIZE == 1

\* MicroExtrinsics::get_metadata_size(num_fork_proofs, extra_data_size)
get_metadata_size(num_fork_proofs, extra_data_size) ==
    EXTRINSICS_FIXED_SIZE + num_fork_proofs * FORK_PROOF_SIZE + extra_data_size

ExMaxTransactions == 3

ExMaxTxSize == 3

ExMaxForkProofs == 1

ExMaxExtraData == 1

\* A transaction: its place in the block order and its serialized size
ExTransactions == [order : 1..ExMaxTransactions, size : 1..ExMaxTxSize]

\* The lists Mempool::get_transactions_for_block can hand over: transactions
\* that differ in their place in the block order
ExMempoolLists ==
    {txs \in UNION {[1..n -> ExTransactions] : n \in 0..ExMaxTransactions} :
        \A i, j \in DOMAIN txs : i # j => txs[i].order # txs[j].order}

\* transactions.iter().fold(0, |size, tx| size + tx.serialized_size())
RECURSIVE TotalSize(_)
TotalSize(transactions) ==
    IF transactions = <<>> THEN 0
    ELSE transactions[1].size + TotalSize(Tail(transactions))

\* Vec::pop: the last element, if any
pop(transactions) ==
    IF transactions = <<>> THEN None ELSE Some(Last(transactions))

\* Serialize::serialized_size of Option<Transaction>: one tag byte, then the
\* transaction when there is one
option_serialized_size(opt) == IF opt = None THEN 1 ELSE 1 + opt[1].size

\* while size > max_size { size -= transactions.pop().serialized_size(); }
RECURSIVE pop_while(_, _, _)
pop_while(transactions, size, max_size) ==
    IF size > max_size
    THEN pop_while(IF transactions = <<>> THEN <<>> ELSE Front(transactions),
                   size - option_serialized_size(pop(transactions)),
                   max_size)
    ELSE [transactions |-> transactions, size |-> size]

\* transactions.sort_unstable_by(|a, b| a.cmp_block_order(b))
RECURSIVE sort_by_block_order(_)
sort_by_block_order(transactions) ==
    IF transactions = <<>> THEN <<>>
    ELSE LET i == CHOOSE j \in DOMAIN transactions :
                     \A k \in DOMAIN transactions :
                         transactions[j].order <= transactions[k].order
         IN  <<transactions[i]>>
                 \o sort_by_block_order(SubSeq(transactions, 1, i - 1)
                                            \o SubSeq(transactions, i + 1,
                                                      Len(transactions)))

\* BlockProducer::next_micro_extrinsics
next_micro_extrinsics(num_fork_proofs, extra_data_size, mempool_transactions) ==
    LET max_size == MICRO_BLOCK_MAX_SIZE - MICRO_HEADER_SIZE
                        - get_metadata_size(num_fork_proofs, extra_data_size)
        size     == TotalSize(mempool_transactions)
        kept     == IF size > max_size
                    THEN pop_while(mempool_transactions, size, max_size)
                    ELSE [transactions |-> mempool_transactions, size |-> size]
    IN  [max_size |-> max_size,
         size |-> kept.size,
         unsorted |-> kept.transactions,
         transactions |-> sort_by_block_order(kept.transactions)]

ExNoIn == [fork_proofs |-> 0, extra_data |-> 0, transactions |-> <<>>]

ExIdle ==
    /\ ex_in = ExNoIn
    /\ ex_out = None

\* A producer about to assemble a body: the fork proofs and extra data it was
\* given and the list the mempool returns
ExInit ==
    /\ ex_in \in [fork_proofs : 0..ExMaxForkProofs, extra_data : 0..ExMaxExtraData,
                   transactions : ExMempoolLists]
    /\ ex_out = None

ExNextMicroExtrinsics ==
    /\ ex_out = None
    /\ ex_out' = Some(next_micro_extrinsics(ex_in.fork_proofs, ex_in.extra_data,
                                            ex_in.transactions))
    /\ UNCHANGED <<ex_in, ex_others>>

ExNext == ExNextMicroExtrinsics

\* ------------------------------------------------------------------
\* Block producer over the chain's store: the scratch write transaction
\* ------------------------------------------------------------------

DbMaxPot == 1

DbMaxBalance == 1

\* Blockchain::write_transaction: a write transaction sees the store as it is
write_transaction(store) == [reward_pot |-> store.reward_pot, accounts |-> store.accounts]

\* WriteTransaction::commit: the transaction's writes become the store's
txn_commit(store, txn) ==
    [store EXCEPT !.reward_pot = txn.reward_pot, !.accounts = txn.accounts]

txn_abort_commits(store, txn) == txn_commit(store, txn)

\* WriteTransaction::abort, and the drop of a transaction while a panic unwinds:
\* the transaction's writes are discarded
txn_abort(store, txn) == store

\* Blockchain::finalize_last_epoch: the reward inherent for the closing epoch
finalize_last_epoch(store) == [reward |-> previous_reward_pot(store.reward_pot), slashes |-> 0]

\* Blockchain::create_slash_inherents for the view changes since the head
create_slash_inherents(chain, view_number) ==
    [reward |-> 0, slashes |-> U32Sub(view_number, next_view_number(chain))]

\* Accounts::commit(txn, [], inherents, block_number)
accounts_commit(accounts, inherents) ==
    [balance |-> accounts.balance + SeqSum([i \in DOMAIN inherents |-> inherents[i].reward]),
     slashes |-> accounts.slashes + SeqSum([i \in DOMAIN inherents |-> inherents[i].slashes])]

\* Accounts::hash(txn): injective on the accounts the transaction sees
accounts_hash(accounts) == <<"Blake2b", accounts>>

\* MacroExtrinsics::hash
extrinsics_hash(extrinsics) == <<"Blake2b", extrinsics>>

\* BlockProducer::next_macro_extrinsics: the slashed set is read without the
\* transaction
next_macro_extrinsics(store) ==
    [slot_addresses |-> SLOTS, slash_fine |-> store.slots.slash_fine,
     slashed_set |-> store.accounts.slashes]

\* Blake2bHash::default() is the hash of no body that has SLOTS slot addresses
proposal_extrinsics_root_default(extrinsics) ==
    <<"Blake2b", [slot_addresses |-> 0, slash_fine |-> 0, slashed_set |-> 0]>>

\* header.extrinsics_root = extrinsics.hash() in next_macro_block_proposal
proposal_extrinsics_root(extrinsics) == extrinsics_hash(extrinsics)

\* The slots whose signatures a PbftProof aggregates, for prepare and for commit
PbftProof(prepare_slots, commit_slots) == [prepare |-> prepare_slots, commit |-> commit_slots]

\* MacroBlock {header, justification, extrinsics}; validators is the length of
\* header.validators, slot_addresses that of the body's address list
MacroBlockOf(proposal, justification, extrinsics) ==
    [header |-> proposal.header,
     validators |-> proposal.validators,
     state_root |-> proposal.state_root,
     extrinsics_root |-> proposal.extrinsics_root,
     justification |-> justification,
     extrinsics |-> extrinsics]

MacroBlockVerify_requires_body(block) ==
    IF block.header.block_number >= 1 /\ block.justification = None
    THEN "NoJustification"
    ELSE IF block.validators # SLOTS
    THEN "InvalidValidators"
    ELSE IF block.extrinsics = None \/ block.extrinsics[1].slot_addresses # SLOTS
    THEN "InvalidValidators"
    ELSE "Ok"

\* MacroBlock::verify
MacroBlockVerify(block) ==
    IF block.header.block_number >= 1 /\ block.justification = None
    THEN "NoJustification"
    ELSE IF block.validators # SLOTS
    THEN "InvalidValidators"
    ELSE IF block.extrinsics # None /\ block.extrinsics[1].slot_addresses # SLOTS
    THEN "InvalidValidators"
    ELSE "Ok"

\* PbftProof::verify against the threshold
proof_verify(justification) ==
    /\ justification # None
    /\ justification[1].prepare >= TWO_THIRD_SLOTS
    /\ justification[1].commit >= TWO_THIRD_SLOTS

\* The inherents a macro block at the given view brings on the given store
macro_inherents(store, view_number) ==
    <<finalize_last_epoch(store), create_slash_inherents(store.chain, view_number)>>

\* Blockchain::push_block of a macro block with its body
push_block(store, block) ==
    LET header == block.header
        chain  == store.chain
    IN  IF /\ MacroBlockVerify(block) = "Ok"
           /\ proof_verify(block.justification)
           /\ header.parent_hash = Hash(chain.head)
           /\ header.block_number = chain.head.block_number + 1
           /\ is_macro_block_at(header.block_number)
           /\ header.timestamp > chain.head.timestamp
           /\ header.view_number >= next_view_number(chain)
           /\ block.extrinsics # None
                  => block.extrinsics_root = extrinsics_hash(block.extrinsics[1])
           /\ block.state_root
                  = accounts_hash(accounts_commit(store.accounts,
                                                  macro_inherents(store, header.view_number)))
        THEN "Extended"
        ELSE "Rejected"

\* The store after the macro block has become the head
macro_applied(store, block) ==
    LET writes == [reward_pot |-> commit_macro_block(store.reward_pot, block.header,
                                                     store.slots,
                                                     next_view_number(store.chain)),
                   accounts |-> accounts_commit(store.accounts,
                                    macro_inherents(store, block.header.view_number))]
    IN  [txn_commit(store, writes) EXCEPT
             !.chain = [head |-> block.header, macro_head |-> block.header]]

\* The store after a micro block without transactions or fork proofs has become
\* the head
micro_applied(store, header) ==
    LET txn    == write_transaction(store)
        block  == [block_number |-> header.block_number,
                   view_number |-> header.view_number,
                   transactions |-> <<>>, fork_proofs |-> 0]
        writes == [txn EXCEPT !.reward_pot =
                       commit_micro_block(txn.reward_pot, block, store.slots,
                                          next_view_number(store.chain))]
    IN  [txn_commit(store, writes) EXCEPT
             !.chain = [head |-> header, macro_head |-> store.chain.macro_head]]

DbStores ==
    {[chain |-> chain, reward_pot |-> pot, accounts |-> accounts, slots |-> slots] :
        chain \in {[head |-> GenesisHeader, macro_head |-> GenesisHeader],
                   [head |-> next_micro_header(
                                [head |-> GenesisHeader, macro_head |-> GenesisHeader], 0, 0),
                    macro_head |-> GenesisHeader]},
        pot \in {<<>>} \cup [{CURRENT_EPOCH_KEY, PREVIOUS_EPOCH_KEY} -> 0..DbMaxPot],
        accounts \in [balance : 0..DbMaxBalance, slashes : {0}],
        slots \in [slash_fine : SampleSlashFines]}

DbNoIn == [timestamp |-> 0, view_number |-> 0]

DbIdle ==
    /\ db_store = [chain |-> [head |-> GenesisHeader, macro_head |-> GenesisHeader],
                   reward_pot |-> <<>>,
                   accounts |-> [balance |-> 0, slashes |-> 0],
                   slots |-> [slash_fine |-> 1]]
    /\ db_txn = None
    /\ db_pc = "idle"
    /\ db_op = "new"
    /\ db_in = DbNoIn
    /\ db_out = None
    /\ db_pushed = None

DbInit ==
    /\ db_store \in DbStores
    /\ db_txn = None
    /\ db_pc = "idle"
    /\ db_op = "new"
    /\ db_in = DbNoIn
    /\ db_out = None
    /\ db_pushed = None

\* BlockProducer::next_micro_block: reads the store, writes nothing
DbNextMicroBlock ==
    /\ db_pc = "idle"
    /\ db_store.chain.head.block_number < PrMaxHeight
    /\ ~is_macro_block_at(db_store.chain.head.block_number + 1)
    /\ \E timestamp \in 0..PrMaxTime, view_number \in next_view_number(db_store.chain)..PrMaxView :
          /\ db_in' = [timestamp |-> timestamp, view_number |-> view_number]
          /\ db_out' = Some([header |-> next_micro_header(db_store.chain, timestamp, view_number),
                             state_root |-> accounts_hash(
                                 accounts_commit(db_store.accounts,
                                     <<create_slash_inherents(db_store.chain, view_number)>>))])
    /\ db_op' = "next_micro_block"
    /\ UNCHANGED <<db_store, db_txn, db_pc, db_pushed, db_others>>

\* next_macro_block_proposal, up to blockchain.write_transaction()
DbProposalOpen ==
    /\ db_pc = "idle"
    /\ db_store.chain.head.block_number < PrMaxHeight
    /\ is_macro_block_at(db_store.chain.head.block_number + 1)
    /\ \E timestamp \in 0..PrMaxTime, view_number \in next_view_number(db_store.chain)..PrMaxView :
          db_in' = [timestamp |-> timestamp, view_number |-> view_number]
    /\ db_txn' = Some(write_transaction(db_store))
    /\ db_pc' = "opened"
    /\ db_op' = "next_macro_block_proposal"
    /\ db_out' = None
    /\ UNCHANGED <<db_store, db_pushed, db_others>>

\* next_macro_header: the dummy macro block is committed to the reward registry
\* within the transaction; a failure panics, and the unwinding drops the
\* transaction
DbCommitDummyBlock ==
    /\ db_pc = "opened"
    /\ LET header == next_macro_header(db_store.chain, db_in.timestamp, db_in.view_number)
           txn    == db_txn[1]
       IN  \/ /\ db_txn' = Some([txn EXCEPT !.reward_pot =
                                  commit_macro_block(txn.reward_pot, header, db_store.slots,
                                                     next_view_number(db_store.chain))])
              /\ db_pc' = "dummy_committed"
              /\ db_store' = db_store
           \/ /\ db_store' = txn_abort(db_store, txn)
              /\ db_txn' = None
              /\ db_pc' = "panicked"
    /\ db_op' = "next_macro_block_proposal"
    /\ UNCHANGED <<db_in, db_out, db_pushed, db_others>>

\* next_macro_header: the finalization and slash inherents are committed to the
\* accounts within the transaction; a failure panics
DbCommitAccounts ==
    /\ db_pc = "dummy_committed"
    /\ LET txn       == db_txn[1]
           inherents == macro_inherents(db_store, db_in.view_number)
       IN  \/ /\ db_txn' = Some([txn EXCEPT !.accounts = accounts_commit(txn.accounts, inherents)])
              /\ db_pc' = "accounts_committed"
              /\ db_store' = db_store
           \/ /\ db_store' = txn_abort(db_store, txn)
              /\ db_txn' = None
              /\ db_pc' = "panicked"
    /\ db_op' = "next_macro_block_proposal"
    /\ UNCHANGED <<db_in, db_out, db_pushed, db_others>>

\* next_macro_block_proposal from the state root on: the roots are read through
\* the transaction, the body is hashed into the header, the transaction is
\* aborted and the proposal returned
DbProposalReturn ==
    /\ db_pc = "accounts_committed"
    /\ LET txn        == db_txn[1]
           extrinsics == next_macro_extrinsics(db_store)
           header     == next_macro_header(db_store.chain, db_in.timestamp, db_in.view_number)
       IN  /\ db_out' = Some([header |-> header,
                              validators |-> SLOTS,
                              state_root |-> accounts_hash(txn.accounts),
                              extrinsics_root |-> proposal_extrinsics_root(extrinsics),
                              extrinsics |-> extrinsics])
           /\ db_store' = txn_abort(db_store, txn)
    /\ db_txn' = None
    /\ db_pc' = "idle"
    /\ db_op' = "next_macro_block_proposal"
    /\ UNCHANGED <<db_in, db_pushed, db_others>>

\* Blockchain::push of the next block at the chain's view: the chain's own write
\* transaction is committed
DbPush ==
    /\ db_pc = "idle"
    /\ db_store.chain.head.block_number < PrMaxHeight
    /\ LET chain == db_store.chain
           view  == next_view_number(chain)
           txn   == write_transaction(db_store)
       IN  IF is_macro_block_at(chain.head.block_number + 1)
           THEN db_store' = macro_applied(db_store,
                                          [header |-> next_macro_header(chain, 0, view)])
           ELSE db_store' = micro_applied(db_store, next_micro_header(chain, 0, view))
    /\ db_op' = "push"
    /\ db_in' = DbNoIn
    /\ db_out' = None
    /\ UNCHANGED <<db_txn, db_pc, db_pushed, db_others>>

\* The proposal just returned is signed by validators holding the given slots
\* and pushed with its body: blockchain.push_block(Block::Macro(block), true)
DbPushProposal ==
    /\ db_pc = "idle"
    /\ db_op = "next_macro_block_proposal"
    /\ db_out # None
    /\ \E prepare_slots \in (TWO_THIRD_SLOTS - 1)..SLOTS,
          commit_slots \in (TWO_THIRD_SLOTS - 1)..SLOTS :
          LET block  == MacroBlockOf(db_out[1],
                                     Some(PbftProof(prepare_slots, commit_slots)),
                                     Some(db_out[1].extrinsics))
              result == push_block(db_store, block)
          IN  /\ db_pushed' = Some([block |-> block, result |-> result])
              /\ db_store' = IF result = "Extended" THEN macro_applied(db_store, block)
                             ELSE db_store
    /\ db_op' = "push_block"
    /\ db_in' = DbNoIn
    /\ db_out' = None
    /\ UNCHANGED <<db_txn, db_pc, db_others>>

DbNext ==
    \/ DbNextMicroBlock
    \/ DbProposalOpen
    \/ DbCommitDummyBlock
    \/ DbCommitAccounts
    \/ DbProposalReturn
    \/ DbPush
    \/ DbPushProposal

\* ------------------------------------------------------------------
\* Isolated macro sync: the macro blocks of chain A pushed onto chain B
\* ------------------------------------------------------------------

SyncMaxMacros == 2

\* BlockProducer::next_macro_block_proposal as one call: what it returns
next_macro_block_proposal(store, timestamp, view_number) ==
    LET txn        == write_transaction(store)
        header     == next_macro_header(store.chain, timestamp, view_number)
        accounts   == accounts_commit(txn.accounts, macro_inherents(store, view_number))
        extrinsics == next_macro_extrinsics(store)
    IN  [header |-> header,
         validators |-> SLOTS,
         state_root |-> accounts_hash(accounts),
         extrinsics_root |-> proposal_extrinsics_root(extrinsics),
         extrinsics |-> extrinsics]

\* sign_macro_block: the proposal with a proof of the given slots and no body
sign_macro_block(proposal, slots) ==
    MacroBlockOf(proposal, Some(PbftProof(slots, slots)), None)

\* Blockchain::get_macro_blocks(genesis, count, header-only, Forward): the macro
\* blocks after genesis in chain order, each without its body
get_macro_blocks(macros) ==
    [i \in DOMAIN macros |-> [macros[i] EXCEPT !.extrinsics = None]]

\* Blockchain::push_isolated_macro_block(block, accounts_diff) on a chain whose
\* head is its macro head
push_isolated_macro_block(chain, block, accounts_diff) ==
    IF /\ MacroBlockVerify(block) = "Ok"
       /\ proof_verify(block.justification)
       /\ chain.head = chain.macro_head
       /\ is_macro_block_at(block.header.block_number)
       /\ block.header.block_number = chain.macro_head.block_number + BLOCKS_PER_EPOCH
       /\ block.header.parent_macro_hash = Hash(chain.macro_head)
    THEN "Extended"
    ELSE "Rejected"

SyncGenesisStore ==
    [chain |-> [head |-> GenesisHeader, macro_head |-> GenesisHeader],
     reward_pot |-> <<>>,
     accounts |-> [balance |-> 0, slashes |-> 0],
     slots |-> [slash_fine |-> 1]]

SyncIdle ==
    /\ sync_a = SyncGenesisStore
    /\ sync_macros = <<>>
    /\ sync_fetched = None
    /\ sync_b = SyncGenesisStore.chain
    /\ sync_results = <<>>
    /\ sync_skipped = FALSE

\* Two blockchains are created on the same genesis
SyncInit == SyncIdle

\* fill_micro_blocks: the next micro block of view 0 is produced and pushed
SyncFillMicroBlock ==
    /\ sync_fetched = None
    /\ Len(sync_macros) < SyncMaxMacros
    /\ ~is_macro_block_at(sync_a.chain.head.block_number + 1)
    /\ next_view_number(sync_a.chain) = 0
    /\ \E timestamp \in 0..PrMaxTime :
          sync_a' = micro_applied(sync_a, next_micro_header(sync_a.chain, timestamp, 0))
    /\ UNCHANGED <<sync_macros, sync_fetched, sync_b, sync_results, sync_skipped, sync_others>>

\* produce_macro_blocks: a proposal is built on the last micro block of the
\* epoch, signed and pushed; the test asserts the push extends the chain
SyncProduceMacroBlock ==
    /\ sync_fetched = None
    /\ Len(sync_macros) < SyncMaxMacros
    /\ is_macro_block_at(sync_a.chain.head.block_number + 1)
    /\ \E timestamp \in 0..PrMaxTime,
          view_number \in next_view_number(sync_a.chain)..PrMaxView,
          slots \in TWO_THIRD_SLOTS..SLOTS,
          with_body \in BOOLEAN :
          LET proposal == next_macro_block_proposal(sync_a, timestamp, view_number)
              signed   == sign_macro_block(proposal, slots)
              block    == IF with_body
                          THEN [signed EXCEPT !.extrinsics = Some(proposal.extrinsics)]
                          ELSE signed
          IN  /\ push_block(sync_a, block) = "Extended"
              /\ sync_a' = macro_applied(sync_a, block)
              /\ sync_macros' = Append(sync_macros, block)
    /\ UNCHANGED <<sync_fetched, sync_b, sync_results, sync_skipped, sync_others>>

\* blockchain.get_macro_blocks(&genesis_hash, 10, true, Direction::Forward)
SyncGetMacroBlocks ==
    /\ sync_fetched = None
    /\ sync_macros # <<>>
    /\ sync_fetched' = Some(get_macro_blocks(sync_macros))
    /\ UNCHANGED <<sync_a, sync_macros, sync_b, sync_results, sync_skipped, sync_others>>

\* blockchain2.push_isolated_macro_block(block, &[]) of the next retrieved block
SyncPushIsolated ==
    /\ sync_fetched # None
    /\ sync_fetched[1] # <<>>
    /\ LET block  == Head(sync_fetched[1])
           result == push_isolated_macro_block(sync_b, block, <<>>)
       IN  /\ sync_results' = Append(sync_results, [block |-> block, result |-> result])
           /\ sync_b' = IF result = "Extended"
                        THEN [head |-> block.header, macro_head |-> block.header]
                        ELSE sync_b
    /\ sync_fetched' = Some(Tail(sync_fetched[1]))
    /\ UNCHANGED <<sync_a, sync_macros, sync_skipped, sync_others>>

\* A retrieved block is left out, so that the blocks after it are pushed out of
\* order
SyncSkip ==
    /\ sync_fetched # None
    /\ Len(sync_fetched[1]) > 1
    /\ sync_fetched' = Some(Tail(sync_fetched[1]))
    /\ sync_skipped' = TRUE
    /\ UNCHANGED <<sync_a, sync_macros, sync_b, sync_results, sync_others>>

SyncNext ==
    \/ SyncFillMicroBlock
    \/ SyncProduceMacroBlock
    \/ SyncGetMacroBlocks
    \/ SyncPushIsolated
    \/ SyncSkip

\* ------------------------------------------------------------------
\* The validator's state lock: what each handler does while it holds it
\* ------------------------------------------------------------------

\* The threads of the executor that run handlers and spawned tasks
LkThreads == {"t1", "t2"}

blockchain_listener_inline == <<"write", "chain", "unlock">>

\* The blockchain listener registered by init_listeners: it clones the event and
\* spawns the task that runs on_blockchain_event
blockchain_listener == <<"clone", "spawn">>

\* Blockchain::push and push_block: the push lock is taken, the block is applied,
\* the listeners are notified on this stack, the lock is released
LkPush == <<"lock_chain">> \o blockchain_listener \o <<"release_chain">>

\* next_micro_block and next_macro_block_proposal hold blockchain.lock() while
\* they build the block
LkProduce == <<"lock_chain", "release_chain">>

\* The handlers as the sequence of their lock operations and calls, in program
\* order on the path that returns last: "write" and "read" acquire the state
\* lock, "unlock" is the drop of the guard, "chain" a call into the blockchain
\* that takes no lock of its own, "lock_chain" and "release_chain" the calls
\* that hold the chain's lock, "net" a call into the validator network or the
\* network time.
LkPrograms ==
    [on_consensus_established |->
         <<"write", "chain", "chain", "net", "unlock",      \* init_epoch
           "read", "unlock",
           "chain", "chain">>,                              \* on_slot_change
     on_consensus_lost |-> <<"write", "unlock">>,
     on_block_timeout |-> <<"write", "chain", "unlock", "net">>,
     on_blockchain_extended |->
         <<"chain", "write", "unlock", "net",               \* on_blockchain_extended
           "write", "chain", "unlock",
           "chain", "chain">>,                              \* on_slot_change
     on_blockchain_rebranched |->
         <<"write", "unlock", "net",                        \* on_blockchain_rebranched
           "write", "chain", "unlock",
           "chain", "chain">>,
     on_view_change_complete |->
         <<"write", "unlock",                               \* on_validator_network_event
           "write", "unlock", "chain">>,                    \* on_slot_change
     on_fork_proof |-> <<"write", "unlock", "write", "unlock">>,
     on_pbft_proposal |-> <<"write", "unlock", "write", "unlock", "net">>,
     on_pbft_prepare_complete |-> <<"write", "unlock", "read", "unlock", "net">>,
     on_pbft_commit_complete |-> <<"write", "unlock", "write", "unlock">> \o LkPush,
     produce_macro_block |-> <<"chain", "write", "net">> \o LkProduce \o <<"unlock", "net">>,
     produce_micro_block |-> <<"chain", "read", "net", "unlock">> \o LkProduce \o LkPush]

LkHandlers == DOMAIN LkPrograms

LkIdleThread == [handler |-> "none", pc |-> 0]

\* The operation a thread is about to perform
LkAt(t) ==
    IF lk_thread[t].handler = "none" THEN "idle"
    ELSE IF lk_thread[t].pc > Len(LkPrograms[lk_thread[t].handler]) THEN "return"
    ELSE LkPrograms[lk_thread[t].handler][lk_thread[t].pc]

LkHolds(t) == lk_state.writer = Some(t) \/ t \in lk_state.readers

LkAdvance(t) == lk_thread' = [lk_thread EXCEPT ![t].pc = @ + 1]

LkIdle ==
    /\ lk_thread = [t \in LkThreads |-> LkIdleThread]
    /\ lk_state = [writer |-> None, readers |-> {}]
    /\ lk_chain = None

LkInit == LkIdle

\* The executor runs a handler or a spawned task on a free thread
LkStart(t, handler) ==
    /\ lk_thread[t] = LkIdleThread
    /\ lk_thread' = [lk_thread EXCEPT ![t] = [handler |-> handler, pc |-> 1]]
    /\ UNCHANGED <<lk_state, lk_chain, lk_others>>

\* self.state.write(): waits until nobody holds the lock
LkWrite(t) ==
    /\ LkAt(t) = "write"
    /\ lk_state.writer = None
    /\ lk_state.readers = {}
    /\ lk_state' = [lk_state EXCEPT !.writer = Some(t)]
    /\ LkAdvance(t)
    /\ UNCHANGED <<lk_chain, lk_others>>

\* self.state.read(): waits until no writer holds the lock
LkRead(t) ==
    /\ LkAt(t) = "read"
    /\ lk_state.writer = None
    /\ lk_state' = [lk_state EXCEPT !.readers = @ \cup {t}]
    /\ LkAdvance(t)
    /\ UNCHANGED <<lk_chain, lk_others>>

\* drop(state), or the end of the guard's scope
LkUnlock(t) ==
    /\ LkAt(t) = "unlock"
    /\ lk_state' = [writer |-> IF lk_state.writer = Some(t) THEN None ELSE lk_state.writer,
                    readers |-> lk_state.readers \ {t}]
    /\ LkAdvance(t)
    /\ UNCHANGED <<lk_chain, lk_others>>

\* blockchain.lock() inside the block producer, and the push lock Blockchain::push
\* and push_block take: waits until no thread holds it
LkLockChain(t) ==
    /\ LkAt(t) = "lock_chain"
    /\ lk_chain = None
    /\ lk_chain' = Some(t)
    /\ LkAdvance(t)
    /\ UNCHANGED <<lk_state, lk_others>>

\* The chain lock's guard is dropped: the producer returns its block, or the
\* push returns after its listeners have run
LkReleaseChain(t) ==
    /\ LkAt(t) = "release_chain"
    /\ lk_chain' = IF lk_chain = Some(t) THEN None ELSE lk_chain
    /\ LkAdvance(t)
    /\ UNCHANGED <<lk_state, lk_others>>

\* A call into the blockchain, the block producer or the network that takes
\* neither lock, and the listener's clone and spawn: it returns
LkCall(t) ==
    /\ LkAt(t) \in {"chain", "net", "clone", "spawn"}
    /\ LkAdvance(t)
    /\ UNCHANGED <<lk_state, lk_chain, lk_others>>

\* The handler returns
LkReturn(t) ==
    /\ LkAt(t) = "return"
    /\ lk_thread' = [lk_thread EXCEPT ![t] = LkIdleThread]
    /\ UNCHANGED <<lk_state, lk_chain, lk_others>>

LkNext ==
    \E t \in LkThreads :
       \/ \E handler \in LkHandlers : LkStart(t, handler)
       \/ LkWrite(t)
       \/ LkRead(t)
       \/ LkUnlock(t)
       \/ LkLockChain(t)
       \/ LkReleaseChain(t)
       \/ LkCall(t)
       \/ LkReturn(t)

\* ------------------------------------------------------------------
\* Fork-proof pool and the handlers that drive it
\* ------------------------------------------------------------------

\* Fork proofs are told apart by the (block_number, view_number) they are for;
\* two such keys are told apart here.
ForkProofKeys == {"fp1", "fp2"}

PoolMaxRebranch == 1

\* The blocks a chain event can carry: micro blocks with any fork proofs, and a macro block
PoolBlocks ==
    [type : {"Micro"}, fork_proofs : SUBSET ForkProofKeys]
        \cup {[type |-> "Macro", fork_proofs |-> {}]}

PoolChains == UNION {[1..n -> PoolBlocks] : n \in 1..PoolMaxRebranch}

\* ForkProofPool::insert
insert(pool, fork_proof) == pool \cup {fork_proof}

\* ForkProofPool::apply_block: drops the proofs the block contains
apply_block(pool, block) ==
    IF block.type = "Micro" THEN pool \ block.fork_proofs ELSE pool

revert_block_forget(pool, block) == pool

\* ForkProofPool::revert_block: the proofs the block contains are pending again
revert_block(pool, block) ==
    IF block.type = "Micro" THEN pool \cup block.fork_proofs ELSE pool

RECURSIVE RevertAll(_, _)
RevertAll(pool, chain) ==
    IF chain = <<>> THEN pool ELSE RevertAll(revert_block(pool, chain[1]), Tail(chain))

RECURSIVE ApplyAll(_, _)
ApplyAll(pool, chain) ==
    IF chain = <<>> THEN pool ELSE ApplyAll(apply_block(pool, chain[1]), Tail(chain))

\* Validator::on_fork_proof
on_fork_proof(pool, fork_proof) == insert(pool, fork_proof)

on_blockchain_extended_noop(pool, block) == pool

\* Validator::on_blockchain_extended
on_blockchain_extended(pool, block) == apply_block(pool, block)

on_blockchain_rebranched_apply_only(pool, old_chain, new_chain) == ApplyAll(pool, new_chain)

\* Validator::on_blockchain_rebranched
on_blockchain_rebranched(pool, old_chain, new_chain) ==
    ApplyAll(RevertAll(pool, old_chain), new_chain)

PoolIdle ==
    /\ fork_proof_pool = {}
    /\ pool_op = "new"
    /\ pool_arg = None
    /\ pool_before = {}
    /\ pool_trip = None

PoolInit == PoolIdle

PoolOnForkProof ==
    /\ \E fork_proof \in ForkProofKeys :
          /\ fork_proof_pool' = on_fork_proof(fork_proof_pool, fork_proof)
          /\ pool_arg' = Some(fork_proof)
    /\ pool_op' = "on_fork_proof"
    /\ pool_before' = fork_proof_pool
    /\ pool_trip' = None
    /\ UNCHANGED pool_others

PoolOnBlockchainExtended ==
    /\ \E block \in PoolBlocks :
          /\ fork_proof_pool' = on_blockchain_extended(fork_proof_pool, block)
          /\ pool_arg' = Some(block)
    /\ pool_op' = "on_blockchain_extended"
    /\ pool_before' = fork_proof_pool
    /\ pool_trip' = None
    /\ UNCHANGED pool_others

PoolOnBlockchainRebranched ==
    /\ \E old_chain \in PoolChains, new_chain \in PoolChains :
          /\ fork_proof_pool' = on_blockchain_rebranched(fork_proof_pool, old_chain, new_chain)
          /\ pool_arg' = Some([old_chain |-> old_chain, new_chain |-> new_chain])
          /\ pool_trip' =
                IF /\ pool_op = "on_blockchain_extended"
                   /\ old_chain = pool_arg
                   /\ \A i \in DOMAIN new_chain : new_chain[i].fork_proofs = {}
                THEN Some([pool |-> pool_before, block |-> pool_arg[1]])
                ELSE None
    /\ pool_op' = "on_blockchain_rebranched"
    /\ pool_before' = fork_proof_pool
    /\ UNCHANGED pool_others

PoolNext == PoolOnForkProof \/ PoolOnBlockchainExtended \/ PoolOnBlockchainRebranched

\* ------------------------------------------------------------------
\* Signature aggregator and its verification backend
\* ------------------------------------------------------------------

AgMaxUpdates == 3

\* Registries: the slot count of validator index i is registry[i + 1]
SampleRegistries == {<<SLOTS>>, <<SLOTS - 2, 1, 1>>, <<1, 1, SLOTS - 2>>}

\* Contributions: an individual signature of one signer, or a multi-signature
\* of a set of signers; `genuine` says whether the signature verifies against
\* the (aggregated) public key of its signers.
SampleContributions ==
    [kind : {"Individual"}, signers : {{i} : i \in 0..3}, genuine : BOOLEAN]
        \cup [kind : {"Multi"}, signers : {{0, 1}, {1, 2}, {0, 1, 2}, {2, 3}}, genuine : BOOLEAN]

\* IdentityRegistry::public_key(signer).is_some()
public_key_known(registry, signer) == signer + 1 \in DOMAIN registry

slot_count(registry, signer) ==
    IF public_key_known(registry, signer) THEN registry[signer + 1] ELSE 0

verify_individual_any_signer(registry, individual) ==
    IF individual.genuine THEN "Ok" ELSE "Forged"

\* MultithreadedVerifier::verify_individual
verify_individual(registry, individual) ==
    LET signer == CHOOSE i \in individual.signers : TRUE
    IN  IF public_key_known(registry, signer)
        THEN IF individual.genuine THEN "Ok" ELSE "Forged"
        ELSE "UnknownSigner"

\* MultithreadedVerifier::verify_multisig
verify_multisig(registry, multisig) ==
    IF \E signer \in multisig.signers : ~public_key_known(registry, signer)
    THEN "UnknownSigner"
    ELSE IF multisig.genuine THEN "Ok" ELSE "Forged"

\* MultithreadedVerifier::verify
verify(registry, signature) ==
    IF signature.kind = "Individual" THEN verify_individual(registry, signature)
    ELSE verify_multisig(registry, signature)

RECURSIVE SignerCount(_, _)
SignerCount(registry, signers) ==
    IF signers = {} THEN 0
    ELSE LET i == CHOOSE x \in signers : TRUE
         IN  slot_count(registry, i) + SignerCount(registry, signers \ {i})

\* The aggregate after a contribution: verified contributions are merged by
\* union of signer indices, the others are dropped.
aggregate(registry, signers, contribution) ==
    IF verify(registry, contribution) = "Ok" THEN signers \cup contribution.signers
    ELSE signers

\* Whether the contribution completes the aggregation: the signer count
\* reaches TWO_THIRD_SLOTS with it and had not before.
completes(registry, signers, contribution) ==
    /\ SignerCount(registry, signers) < TWO_THIRD_SLOTS
    /\ SignerCount(registry, aggregate(registry, signers, contribution)) >= TWO_THIRD_SLOTS

AgIdle ==
    /\ ag_registry = <<SLOTS>>
    /\ ag_signers = {}
    /\ ag_events = 0
    /\ ag_fed = <<>>

AgInit ==
    /\ ag_registry \in SampleRegistries
    /\ ag_signers = {}
    /\ ag_events = 0
    /\ ag_fed = <<>>

\* A contribution arrives (from the network or from this node)
AgUpdate ==
    /\ Len(ag_fed) < AgMaxUpdates
    /\ \E contribution \in SampleContributions :
          /\ ag_signers' = aggregate(ag_registry, ag_signers, contribution)
          /\ ag_events' = IF completes(ag_registry, ag_signers, contribution)
                          THEN ag_events + 1 ELSE ag_events
          /\ ag_fed' = Append(ag_fed, contribution)
    /\ UNCHANGED <<ag_registry, ag_others>>

AgNext == AgUpdate

\* ------------------------------------------------------------------
\* Blockchain and validator network, as the validator uses them
\* ------------------------------------------------------------------

VMaxHeight == 2

VMaxView == 1

\* Tasks handed to the executor and not yet finished: production tasks and
\* blockchain-event tasks
MaxProduceTasks == 1

MaxEventTasks == 1

\* Macro blocks this validator pushes in one run
MaxMacroPushes == 2

\* Readings of network_time.now()
NetworkTimes == {0, 3}

\* Validator lists (GroupedList of (num_slots, public_key)); "self" is this validator's key
SampleValidators ==
    { <<[num_slots |-> SLOTS, key |-> "self"]>>,
      <<[num_slots |-> 2, key |-> "self"], [num_slots |-> SLOTS - 2, key |-> "other"]>>,
      <<[num_slots |-> 1, key |-> "self"], [num_slots |-> SLOTS - 1, key |-> "other"]>>,
      <<[num_slots |-> SLOTS, key |-> "other"]>> }

TasksOfKind(tks, kind) == {i \in DOMAIN tks : tks[i].kind = kind}

WithinTaskBounds(tks) ==
    /\ Cardinality(TasksOfKind(tks, "produce")) <= MaxProduceTasks
    /\ Cardinality(TasksOfKind(tks, "event")) <= MaxEventTasks

RemoveAt(s, i) == SubSeq(s, 1, i - 1) \o SubSeq(s, i + 1, Len(s))

\* policy::epoch_at
epoch_at(block_number) == (block_number + BLOCKS_PER_EPOCH - 1) \div BLOCKS_PER_EPOCH

ViewChange(block_number, new_view_number) ==
    [block_number |-> block_number, new_view_number |-> new_view_number]

MicroBlock(header, fork_proofs, view_change_proof, signer) ==
    [type |-> "Micro", header |-> header, fork_proofs |-> fork_proofs,
     view_change_proof |-> view_change_proof, signer |-> signer]

MacroBlock(header, signer) ==
    [type |-> "Macro", header |-> header, fork_proofs |-> {},
     view_change_proof |-> None, signer |-> signer]

GenesisBlock == MacroBlock(GenesisHeader, "genesis")

RECURSIVE GroupAt(_, _)
GroupAt(validators, slot) ==
    IF slot < validators[1].num_slots THEN validators[1]
    ELSE GroupAt(Tail(validators), slot - validators[1].num_slots)

\* The owner of the slot that produces block block_number in view view_number
SlotOwner(validators, block_number, view_number) ==
    GroupAt(validators, (block_number + view_number) % SLOTS).key

\* Blockchain::get_next_block_producer(view_number, None)
get_next_block_producer(chain, view_number) ==
    SlotOwner(chain.validators, chain.head.block_number + 1, view_number)

\* Blockchain::get_next_block_type(None)
get_next_block_type(chain) ==
    IF is_macro_block_at(chain.head.block_number + 1) THEN "Macro" ELSE "Micro"

RECURSIVE OthersWeight(_)
OthersWeight(validators) ==
    IF validators = <<>> THEN 0
    ELSE (IF validators[1].key = "self" THEN 0 ELSE validators[1].num_slots)
             + OthersWeight(Tail(validators))

\* Signatures over a message can reach TWO_THIRD_SLOTS: the other validators
\* hold that many slots, or this validator has signed the message as well.
HasQuorum(chain, signed) ==
    OthersWeight(chain.validators) >= TWO_THIRD_SLOTS \/ signed

\* Blockchain::push accepts a block as the new head
ChainAccepts(chain, block) ==
    LET header == block.header
    IN  /\ header.parent_hash = Hash(chain.head)
        /\ header.block_number = chain.head.block_number + 1
        /\ header.type = get_next_block_type(chain)
        /\ header.timestamp > chain.head.timestamp
        /\ header.view_number >= next_view_number(chain)
        /\ block.type = "Micro" /\ header.view_number > next_view_number(chain)
              => block.view_change_proof
                     = Some(ViewChange(header.block_number, header.view_number))
        /\ block.signer = get_next_block_producer(chain, header.view_number)

Extend(chain, block) ==
    [chain EXCEPT !.head = block.header,
                  !.block = block,
                  !.macro_head = IF block.type = "Macro" THEN block.header ELSE @]

\* BlockchainEvent::{Extended, Finalized, Rebranched}
BlockchainEvent(type, old_chain, new_chain) ==
    [type |-> type, old_chain |-> old_chain, new_chain |-> new_chain]

\* tokio::spawn of on_blockchain_event(e) by the blockchain listener
EventTask(event) ==
    [kind |-> "event", event |-> Some(event), proof |-> None, pc |-> "spawned",
     fork_proofs |-> {}, timestamp |-> 0, view_number |-> 0, block |-> None,
     leader_view |-> 0]

\* tokio::spawn of the production closure by on_slot_change; leader_view keeps
\* the view number the leader check was made for
ProduceTask(view, view_change_proof) ==
    [kind |-> "produce", event |-> None, proof |-> view_change_proof, pc |-> "spawned",
     fork_proofs |-> {}, timestamp |-> 0, view_number |-> 0, block |-> None,
     leader_view |-> view]

\* The event the notifier sends for a block that became the head
ExtendedEvent(block) ==
    BlockchainEvent(IF block.type = "Macro" THEN "Finalized" ELSE "Extended",
                    <<>>, <<block>>)

\* The validator network runs one PBFT round per block number: [header, phase]
RoundFor(rounds, block_number) ==
    {r \in rounds : r.header.block_number = block_number}

\* ValidatorNetwork's proposal check: the signer is the slot owner of the
\* proposal's block and view, the block is ahead of the head, and a round
\* already running for the block number has a lower view number and has not
\* committed.
network_accepts_proposal(chain, rounds, proposal) ==
    /\ proposal.header.block_number > chain.head.block_number
    /\ proposal.signer = SlotOwner(chain.validators, proposal.header.block_number,
                                   proposal.header.view_number)
    /\ \A r \in RoundFor(rounds, proposal.header.block_number) :
          /\ r.header.view_number < proposal.header.view_number
          /\ r.phase # "committed"

\* The accepted proposal's round takes the place of the round it outbids
start_round(rounds, proposal) ==
    (rounds \ RoundFor(rounds, proposal.header.block_number))
        \cup {[header |-> proposal.header, phase |-> "proposed"]}

set_phase(rounds, round, phase) ==
    (rounds \ {round}) \cup {[round EXCEPT !.phase = phase]}

NoSent == [view_changes |-> {}, signed_view_changes |-> {}, prepares |-> {}, commits |-> {}]

\* ------------------------------------------------------------------
\* Validator (validator/src/validator.rs)
\* ------------------------------------------------------------------

\* The fields of ValidatorState
ValidatorState ==
    [status |-> state.status, pk_idx |-> state.pk_idx, slots |-> state.slots,
     view_number |-> state.view_number,
     active_view_change |-> state.active_view_change,
     proposed_extrinsics |-> state.proposed_extrinsics,
     fork_proof_pool |-> fork_proof_pool]

SetState(st) ==
    /\ state' = [status |-> st.status, pk_idx |-> st.pk_idx, slots |-> st.slots,
                 view_number |-> st.view_number,
                 active_view_change |-> st.active_view_change,
                 proposed_extrinsics |-> st.proposed_extrinsics]
    /\ fork_proof_pool' = st.fork_proof_pool

get_pk_idx_and_slots_one_based(chain) ==
    LET found == {i \in DOMAIN chain.validators : chain.validators[i].key = "self"}
    IN  IF found = {} THEN None
        ELSE LET i == CHOOSE j \in found : \A k \in found : j <= k
             IN  Some([pk_idx |-> i, slots |-> chain.validators[i].num_slots])

\* Validator::get_pk_idx_and_slots
get_pk_idx_and_slots(chain) ==
    LET found == {i \in DOMAIN chain.validators : chain.validators[i].key = "self"}
    IN  IF found = {} THEN None
        ELSE LET i == CHOOSE j \in found : \A k \in found : j <= k
             IN  Some([pk_idx |-> i - 1, slots |-> chain.validators[i].num_slots])

\* Validator::is_potential_validator
is_potential_validator(chain) == chain.staked

\* Validator::init_epoch
init_epoch(st, chain) ==
    LET found == get_pk_idx_and_slots(chain)
    IN  IF found # None
        THEN [st EXCEPT !.view_number = 0,
                        !.pk_idx = Some(found[1].pk_idx),
                        !.slots = Some(found[1].slots),
                        !.status = "Active"]
        ELSE [st EXCEPT !.view_number = 0,
                        !.pk_idx = None,
                        !.slots = None,
                        !.status = IF is_potential_validator(chain) THEN "Potential"
                                   ELSE "Synced"]

\* A variant of the end of on_slot_change that spawns the production task
\* without the leader check
spawn_always(tks, chain, view, view_change_proof) ==
    Append(tks, ProduceTask(view, view_change_proof))

\* The end of on_slot_change: spawn the production task when this validator
\* owns the slot of the next block in the given view.
spawn_if_producer(tks, chain, view, view_change_proof) ==
    IF get_next_block_producer(chain, view) = "self"
    THEN Append(tks, ProduceTask(view, view_change_proof))
    ELSE tks

\* Validator::on_consensus_established
OnConsensusEstablished ==
    LET st == init_epoch(ValidatorState, blockchain)
    IN  /\ SetState(st)
        /\ tasks' = IF st.status = "Active"
                    THEN spawn_if_producer(tasks, blockchain,
                                           next_view_number(blockchain), None)
                    ELSE tasks
        /\ WithinTaskBounds(tasks')
        /\ UNCHANGED <<chain_vars, sent, macro_pushed, macro_block, panicked,
                       agent_vars, v_others>>

\* Validator::on_consensus_lost
OnConsensusLost ==
    /\ state' = [state EXCEPT !.status = "None"]
    /\ UNCHANGED <<fork_proof_pool, chain_vars, task_vars, agent_vars, v_others>>

start_view_change_again(st, chain) ==
    IF st.status # "Active"
    THEN [state |-> st, signed |-> None]
    ELSE LET message == ViewChange(chain.head.block_number + 1, st.view_number + 1)
         IN  [state |-> [st EXCEPT !.active_view_change = Some(message)],
              signed |-> Some([message |-> message, signer_idx |-> st.pk_idx[1]])]

\* Validator::start_view_change: the state after it, and the SignedViewChange it
\* hands to validator_network.start_view_change, if any
start_view_change(st, chain) ==
    IF st.status # "Active"
    THEN [state |-> st, signed |-> None]
    ELSE IF st.active_view_change # None
    THEN [state |-> st, signed |-> None]
    ELSE LET message == ViewChange(chain.head.block_number + 1, st.view_number + 1)
         IN  [state |-> [st EXCEPT !.active_view_change = Some(message)],
              signed |-> Some([message |-> message, signer_idx |-> st.pk_idx[1]])]

\* Validator::on_block_timeout -> start_view_change
OnBlockTimeout ==
    /\ state.view_number < VMaxView
    /\ LET started == start_view_change(state, blockchain)
       IN  /\ state' = started.state
           /\ sent' = IF started.signed = None THEN sent
                      ELSE [sent EXCEPT
                                !.view_changes = @ \cup {started.signed[1].message},
                                !.signed_view_changes = @ \cup {started.signed[1]}]
    /\ UNCHANGED <<fork_proof_pool, chain_vars, tasks, macro_pushed, macro_block,
                   panicked, agent_vars, v_others>>

after_blockchain_event_keep_view(st, chain) ==
    [st EXCEPT !.proposed_extrinsics = {},
               !.active_view_change =
                   IF st.status \in {"Potential", "Active"} THEN None ELSE @]

\* Validator::on_blockchain_event after the match on the event: the view number
\* follows the chain, the proposed bodies are cleared, and a Potential or Active
\* validator clears its view change
after_blockchain_event(st, chain) ==
    [st EXCEPT !.view_number = next_view_number(chain),
               !.proposed_extrinsics = {},
               !.active_view_change =
                   IF st.status \in {"Potential", "Active"} THEN None ELSE @]

\* The blockchain listener's task: Validator::on_blockchain_event
OnBlockchainEvent(i) ==
    /\ tasks[i].kind = "event"
    /\ LET event == tasks[i].event[1]
           st1 == IF event.type = "Finalized"
                      THEN init_epoch(ValidatorState, blockchain)
                  ELSE IF event.type = "Extended"
                      THEN [ValidatorState EXCEPT !.fork_proof_pool =
                                on_blockchain_extended(@, event.new_chain[1])]
                  ELSE [ValidatorState EXCEPT !.fork_proof_pool =
                                on_blockchain_rebranched(@, event.old_chain,
                                                         event.new_chain)]
           st2 == after_blockchain_event(st1, blockchain)
       IN  /\ SetState(st2)
           /\ tasks' = IF st2.status = "Active"
                       THEN spawn_if_producer(RemoveAt(tasks, i), blockchain,
                                              next_view_number(blockchain), None)
                       ELSE RemoveAt(tasks, i)
           /\ WithinTaskBounds(tasks')
    /\ UNCHANGED <<chain_vars, sent, macro_pushed, macro_block, panicked,
                   agent_vars, v_others>>

\* ValidatorNetworkEvent::ViewChangeComplete -> on_slot_change(ViewChange(..))
OnViewChangeComplete(view_change) ==
    /\ HasQuorum(blockchain, view_change \in sent.view_changes)
    /\ IF state.status # "Active"
       THEN UNCHANGED <<state, tasks>>
       ELSE LET cleared == IF state.active_view_change = Some(view_change)
                           THEN None ELSE state.active_view_change
            IN  /\ IF state.view_number < view_change.new_view_number
                   THEN /\ state' = [state EXCEPT
                                         !.active_view_change = cleared,
                                         !.view_number = view_change.new_view_number]
                        /\ tasks' = spawn_if_producer(tasks, blockchain,
                                                      view_change.new_view_number,
                                                      Some(view_change))
                   ELSE /\ state' = [state EXCEPT !.active_view_change = cleared]
                        /\ tasks' = spawn_if_producer(tasks, blockchain,
                                                      state.view_number, None)
                /\ WithinTaskBounds(tasks')
    /\ UNCHANGED <<fork_proof_pool, chain_vars, sent, macro_pushed, macro_block,
                   panicked, agent_vars, v_others>>

\* ValidatorNetworkEvent::ForkProof -> on_fork_proof
OnForkProof(fork_proof) ==
    /\ fork_proof_pool' = IF state.status = "Active"
                          THEN on_fork_proof(fork_proof_pool, fork_proof)
                          ELSE fork_proof_pool
    /\ UNCHANGED <<state, chain_vars, task_vars, agent_vars, v_others>>

\* A variant of on_pbft_proposal that signs the commit together with the
\* prepare, before any prepare quorum
on_pbft_proposal_commits(st, out, hash) ==
    IF st.status # "Active" THEN out
    ELSE [out EXCEPT !.prepares = @ \cup {hash}, !.commits = @ \cup {hash}]

\* Validator::on_pbft_proposal(hash): an active validator signs a
\* PbftPrepareMessage for the hash and pushes it to the validator network
on_pbft_proposal(st, out, hash) ==
    IF st.status # "Active" THEN out
    ELSE [out EXCEPT !.prepares = @ \cup {hash}]

\* Validator::on_pbft_prepare_complete(hash): an active validator signs a
\* PbftCommitMessage for the hash and pushes it to the validator network
on_pbft_prepare_complete(st, out, hash) ==
    IF st.status # "Active" THEN out
    ELSE [out EXCEPT !.commits = @ \cup {hash}]

\* The validator network takes a signed proposal (from start_pbft or from an
\* agent's PbftProposal event); an accepted proposal is announced as
\* ValidatorNetworkEvent::PbftProposal, which Validator::on_pbft_proposal
\* answers with a signed prepare when the validator is active.
TakeProposal(proposal, sent_before, forwarded) ==
    LET accepted == network_accepts_proposal(blockchain, net_pbft, proposal)
        prepared == accepted /\ state.status = "Active"
    IN  /\ net_pbft' = IF accepted THEN start_round(net_pbft, proposal) ELSE net_pbft
        /\ sent' = IF accepted
                   THEN on_pbft_proposal(state, sent_before, proposal.header)
                   ELSE sent_before
        /\ last_accept' = Some([header |-> proposal.header,
                                forwarded |-> forwarded,
                                prepared |-> prepared,
                                accepted |-> agent_forwarded \cap sent.prepares])

\* ValidatorNetworkEvent::PbftPrepareComplete -> on_pbft_prepare_complete
OnPbftPrepareComplete(round) ==
    /\ round.phase = "proposed"
    /\ HasQuorum(blockchain, round.header \in sent.prepares)
    /\ net_pbft' = set_phase(net_pbft, round, "prepared")
    /\ sent' = on_pbft_prepare_complete(state, sent, round.header)
    /\ UNCHANGED <<blockchain, state, fork_proof_pool, tasks,
                   macro_pushed, macro_block, panicked, agent_vars, v_others>>

\* Blockchain::push / push_block of a block: it becomes the head ("Extended"),
\* it takes the place of a micro head with a lower view number ("Rebranched"),
\* or the head stays ("Rejected": known, forked or an error).
ParentChain(chain) == [chain EXCEPT !.head = chain.head.parent_hash[2]]

PushOutcome(chain, block) ==
    IF ChainAccepts(chain, block) THEN "Extended"
    ELSE IF /\ chain.head.type = "Micro"
            /\ block.type = "Micro"
            /\ block.header.view_number > chain.head.view_number
            /\ ChainAccepts(ParentChain(chain), block)
         THEN "Rebranched"
    ELSE "Rejected"

PushEvent(chain, block) ==
    IF PushOutcome(chain, block) = "Rebranched"
    THEN BlockchainEvent("Rebranched", <<chain.block>>, <<block>>)
    ELSE ExtendedEvent(block)

\* The chain after the push, and the task list after the notifier has spawned
\* the listener's task
Pushed(chain, block) ==
    IF PushOutcome(chain, block) = "Rejected" THEN chain ELSE Extend(chain, block)

Notified(tks, chain, block) ==
    IF PushOutcome(chain, block) = "Rejected" THEN tks
    ELSE Append(tks, EventTask(PushEvent(chain, block)))

\* state.proposed_extrinsics.remove(&hash) in on_pbft_commit_complete
remove(extrinsics, hash) == extrinsics \ {hash}

\* ValidatorNetworkEvent::PbftComplete -> on_pbft_commit_complete, up to
\* drop(state): the extrinsics of the hash are taken and the block assembled
OnPbftComplete(round) ==
    /\ macro_block = None
    /\ round.phase \in {"prepared", "committed"}
    /\ HasQuorum(blockchain, round.header \in sent.commits)
    /\ net_pbft' = set_phase(net_pbft, round, "committed")
    /\ IF state.status = "Active" /\ round.header \in state.proposed_extrinsics
       THEN /\ state' = [state EXCEPT !.proposed_extrinsics = remove(@, round.header)]
            /\ macro_block' = Some(MacroBlock(round.header,
                                   SlotOwner(blockchain.validators,
                                             round.header.block_number,
                                             round.header.view_number)))
       ELSE UNCHANGED <<state, macro_block>>
    /\ UNCHANGED <<blockchain, fork_proof_pool, tasks, sent, macro_pushed, panicked,
                   agent_vars, v_others>>

\* on_pbft_commit_complete after drop(state): blockchain.push_block(block, false);
\* an error panics
PushMacroBlock ==
    /\ macro_block # None
    /\ Len(macro_pushed) < MaxMacroPushes
    /\ LET block == macro_block[1]
           outcome == PushOutcome(blockchain, block)
       IN  /\ outcome = "Extended" => blockchain.head.block_number < VMaxHeight
           /\ blockchain' = Pushed(blockchain, block)
           /\ tasks' = Notified(tasks, blockchain, block)
           /\ WithinTaskBounds(tasks')
           /\ macro_pushed' = Append(macro_pushed, block.header)
           /\ panicked' \in (IF outcome = "Rejected" /\ block.header # blockchain.head
                             THEN {TRUE, panicked}
                             ELSE {panicked})
    /\ macro_block' = None
    /\ UNCHANGED <<net_pbft, state, fork_proof_pool, sent, agent_vars, v_others>>

\* The production task at a macro position: Validator::produce_macro_block
ProduceMacroBlock(i) ==
    /\ tasks[i].kind = "produce"
    /\ tasks[i].pc = "spawned"
    /\ get_next_block_type(blockchain) = "Macro"
    /\ \E timestamp \in NetworkTimes :
          LET header == next_macro_header(blockchain, timestamp, state.view_number)
              proposal == [header |-> header, view_change |-> tasks[i].proof,
                           signer |-> "self"]
          IN  /\ state' = [state EXCEPT !.proposed_extrinsics = @ \cup {header}]
              /\ IF state.pk_idx = None
                 THEN /\ panicked' = TRUE
                      /\ UNCHANGED <<net_pbft, sent, last_accept>>
                 ELSE /\ TakeProposal(proposal, sent, FALSE)
                      /\ UNCHANGED panicked
    /\ tasks' = RemoveAt(tasks, i)
    /\ UNCHANGED <<blockchain, fork_proof_pool, macro_pushed, macro_block,
                   pbft_proposal_limit, agent_forwarded, agent_log, v_others>>

\* The production task at a micro position, Validator::produce_micro_block up
\* to drop(state): fork proofs, timestamp and view number are read
ProduceMicroBlockRead(i) ==
    /\ tasks[i].kind = "produce"
    /\ tasks[i].pc = "spawned"
    /\ get_next_block_type(blockchain) = "Micro"
    /\ \E timestamp \in NetworkTimes :
          tasks' = [tasks EXCEPT ![i] = [@ EXCEPT !.pc = "read",
                                                  !.fork_proofs = fork_proof_pool,
                                                  !.timestamp = timestamp,
                                                  !.view_number = state.view_number]]
    /\ UNCHANGED <<chain_vars, state, fork_proof_pool, sent,
                   macro_pushed, macro_block, panicked, agent_vars, v_others>>

\* produce_micro_block: block_producer.next_micro_block(..), under chain.lock()
ProduceMicroBlockBuild(i) ==
    /\ tasks[i].kind = "produce"
    /\ tasks[i].pc = "read"
    /\ LET header == next_micro_header(blockchain, tasks[i].timestamp,
                                       tasks[i].view_number)
           block == MicroBlock(header, tasks[i].fork_proofs, tasks[i].proof, "self")
       IN  tasks' = [tasks EXCEPT ![i] = [@ EXCEPT !.pc = "built",
                                                  !.block = Some(block)]]
    /\ UNCHANGED <<chain_vars, state, fork_proof_pool, sent,
                   macro_pushed, macro_block, panicked, agent_vars, v_others>>

\* produce_micro_block: blockchain.push(Block::Micro(block)); an error is logged
ProduceMicroBlockPush(i) ==
    /\ tasks[i].kind = "produce"
    /\ tasks[i].pc = "built"
    /\ LET block == tasks[i].block[1]
       IN  /\ PushOutcome(blockchain, block) = "Extended"
                  => blockchain.head.block_number < VMaxHeight
           /\ blockchain' = Pushed(blockchain, block)
           /\ tasks' = Notified(RemoveAt(tasks, i), blockchain, block)
           /\ WithinTaskBounds(tasks')
    /\ UNCHANGED <<net_pbft, state, fork_proof_pool, sent, macro_pushed, macro_block,
                   panicked, agent_vars, v_others>>

\* ------------------------------------------------------------------
\* Blocks of the other validators, pushed by the consensus layer
\* ------------------------------------------------------------------

PeerForkProofs == {{}, {"fp1"}}

\* Micro blocks another slot owner can have produced on top of the given chain
PeerMicroBlocks(chain) ==
    {MicroBlock(next_micro_header(chain, timestamp, view), fork_proofs,
                IF view > next_view_number(chain)
                THEN Some(ViewChange(chain.head.block_number + 1, view)) ELSE None,
                "other") :
        timestamp \in NetworkTimes, view \in 0..VMaxView, fork_proofs \in PeerForkProofs}

\* Macro blocks the other validators can have assembled from a round
PeerMacroBlocks(chain, rounds) ==
    {MacroBlock(r.header, SlotOwner(chain.validators, r.header.block_number,
                                    r.header.view_number)) :
        r \in {q \in rounds : q.phase \in {"prepared", "committed"}}}

Justified(chain, block) ==
    /\ block.view_change_proof # None
          => HasQuorum(chain, block.view_change_proof[1] \in sent.view_changes)
    /\ block.type = "Macro" => HasQuorum(chain, block.header \in sent.commits)

PeerPush ==
    /\ \E block \in PeerMicroBlocks(blockchain)
                      \cup (IF blockchain.head.type = "Micro"
                            THEN PeerMicroBlocks(ParentChain(blockchain)) ELSE {})
                      \cup PeerMacroBlocks(blockchain, net_pbft) :
          /\ Justified(blockchain, block)
          /\ PushOutcome(blockchain, block) # "Rejected"
          /\ PushOutcome(blockchain, block) = "Extended"
                 => blockchain.head.block_number < VMaxHeight
          /\ blockchain' = Pushed(blockchain, block)
          /\ tasks' = Notified(tasks, blockchain, block)
          /\ WithinTaskBounds(tasks')
          /\ net_pbft' = IF block.type = "Macro"
                         THEN {IF r.header = block.header
                               THEN [r EXCEPT !.phase = "committed"] ELSE r :
                                   r \in net_pbft}
                         ELSE net_pbft
    /\ UNCHANGED <<state, fork_proof_pool, sent, macro_pushed, macro_block,
                   panicked, agent_vars, v_others>>

\* ------------------------------------------------------------------
\* Validator agent (validator/src/validator_agent.rs)
\* ------------------------------------------------------------------

\* RateLimit::new(PBFT_PROPOSAL_RATE, 10 s)
PBFT_PROPOSAL_RATE == 5

note_single_unlimited(counted) == TRUE

\* RateLimit::note_single: one more within the window, if the window allows it
note_single(counted) == counted < PBFT_PROPOSAL_RATE

\* Proposals of the peer that arrive within one window of the rate limiter
AgentMaxReceived == 6

\* The timestamps a peer puts in its proposals, as offsets from the head's
ProposalTimes == 1..3

\* The macro header a peer proposes for the given block and view
PeerProposal(chain, block_number, view, time) ==
    [header |-> [type |-> "Macro",
                 block_number |-> block_number,
                 view_number |-> view,
                 parent_macro_hash |-> Hash(chain.macro_head),
                 parent_hash |-> Hash(chain.head),
                 timestamp |-> chain.head.timestamp + time],
     view_change |-> None,
     signer |-> "other"]

\* What on_pbft_proposal_message does with a proposal
proposal_fate(counted, chain, proposal) ==
    IF ~note_single(counted) THEN "rate_limited"
    ELSE IF proposal.header.block_number <= chain.head.block_number THEN "old"
    ELSE IF epoch_at(proposal.header.block_number) # epoch_at(chain.head.block_number)
         THEN "other_epoch"
    ELSE "forwarded"

\* ValidatorAgent::on_pbft_proposal_message; the PbftProposal event goes to the
\* validator network
OnPbftProposalMessage(proposal) ==
    LET fate == proposal_fate(pbft_proposal_limit, blockchain, proposal)
    IN  /\ agent_log.received < AgentMaxReceived
        /\ pbft_proposal_limit' = IF note_single(pbft_proposal_limit)
                                  THEN pbft_proposal_limit + 1
                                  ELSE pbft_proposal_limit
        /\ IF fate # "forwarded"
           THEN UNCHANGED <<agent_forwarded, last_accept, net_pbft, sent>>
           ELSE /\ agent_forwarded' = agent_forwarded \cup {proposal.header}
                /\ TakeProposal(proposal, sent, TRUE)
        /\ agent_log' = [received |-> agent_log.received + 1,
                         forwarded |-> agent_log.forwarded
                                           + (IF fate = "forwarded" THEN 1 ELSE 0)]
        /\ UNCHANGED <<blockchain, state, fork_proof_pool, tasks,
                       macro_pushed, macro_block, panicked, v_others>>

NoAgentLog == [received |-> 0, forwarded |-> 0]

\* The rate limiter's window of 10 s has passed
RateWindowElapsed ==
    /\ pbft_proposal_limit > 0
    /\ pbft_proposal_limit' = 0
    /\ agent_log' = NoAgentLog
    /\ UNCHANGED <<agent_forwarded, last_accept, chain_vars, state,
                   fork_proof_pool, task_vars, v_others>>

\* ------------------------------------------------------------------
\* The validator with its agent, blockchain and network
\* ------------------------------------------------------------------

ViewChanges ==
    {ViewChange(block_number, view) :
        block_number \in 1..(VMaxHeight + 1), view \in 1..VMaxView}

VIdle ==
    /\ blockchain = [head |-> GenesisHeader, macro_head |-> GenesisHeader,
                     block |-> GenesisBlock,
                     validators |-> <<[num_slots |-> SLOTS, key |-> "self"]>>,
                     staked |-> TRUE]
    /\ net_pbft = {}
    /\ state = [status |-> "None", pk_idx |-> None, slots |-> None, view_number |-> 0,
                active_view_change |-> None, proposed_extrinsics |-> {}]
    /\ tasks = <<>>
    /\ sent = NoSent
    /\ macro_pushed = <<>>
    /\ macro_block = None
    /\ panicked = FALSE
    /\ pbft_proposal_limit = 0
    /\ agent_forwarded = {}
    /\ last_accept = None
    /\ agent_log = NoAgentLog

\* Validator::new and ValidatorAgent::new on a chain at its genesis block
VInit ==
    /\ \E validators \in SampleValidators, staked \in BOOLEAN :
          /\ get_pk_idx_and_slots([validators |-> validators]) # None => staked
          /\ blockchain = [head |-> GenesisHeader, macro_head |-> GenesisHeader,
                           block |-> GenesisBlock,
                           validators |-> validators,
                           staked |-> staked]
    /\ net_pbft = {}
    /\ state = [status |-> "None", pk_idx |-> None, slots |-> None,
                view_number |-> next_view_number(blockchain),
                active_view_change |-> None, proposed_extrinsics |-> {}]
    /\ tasks = <<>>
    /\ sent = NoSent
    /\ macro_pushed = <<>>
    /\ macro_block = None
    /\ panicked = FALSE
    /\ pbft_proposal_limit = 0
    /\ agent_forwarded = {}
    /\ last_accept = None
    /\ agent_log = NoAgentLog

VNext ==
    \/ OnConsensusEstablished
    \/ OnConsensusLost
    \/ OnBlockTimeout
    \/ \E i \in DOMAIN tasks : OnBlockchainEvent(i)
    \/ \E view_change \in ViewChanges : OnViewChangeComplete(view_change)
    \/ \E fork_proof \in UNION PeerForkProofs : OnForkProof(fork_proof)
    \/ \E round \in net_pbft : OnPbftPrepareComplete(round)
    \/ \E round \in net_pbft : OnPbftComplete(round)
    \/ PushMacroBlock
    \/ \E i \in DOMAIN tasks : ProduceMacroBlock(i)
    \/ \E i \in DOMAIN tasks : ProduceMicroBlockRead(i)
    \/ \E i \in DOMAIN tasks : ProduceMicroBlockBuild(i)
    \/ \E i \in DOMAIN tasks : ProduceMicroBlockPush(i)
    \/ PeerPush

\* The validator's own handlers and tasks, on a chain that only its own blocks
\* extend
LeaderNext ==
    \/ OnConsensusEstablished
    \/ OnConsensusLost
    \/ OnBlockTimeout
    \/ \E i \in DOMAIN tasks : OnBlockchainEvent(i)
    \/ \E view_change \in ViewChanges : OnViewChangeComplete(view_change)
    \/ \E round \in net_pbft : OnPbftPrepareComplete(round)
    \/ \E round \in net_pbft : OnPbftComplete(round)
    \/ PushMacroBlock
    \/ \E i \in DOMAIN tasks : ProduceMacroBlock(i)
    \/ \E i \in DOMAIN tasks : ProduceMicroBlockRead(i)
    \/ \E i \in DOMAIN tasks : ProduceMicroBlockBuild(i)
    \/ \E i \in DOMAIN tasks : ProduceMicroBlockPush(i)

\* A validator list in which this validator holds the last slot only: the macro
\* block after the first micro block is its to propose in view 1
LastSlotValidators ==
    <<[num_slots |-> SLOTS - 1, key |-> "other"], [num_slots |-> 1, key |-> "self"]>>

\* Validator::new for the holder of the last slot
MacroPushInit ==
    /\ blockchain = [head |-> GenesisHeader, macro_head |-> GenesisHeader,
                     block |-> GenesisBlock,
                     validators |-> LastSlotValidators,
                     staked |-> TRUE]
    /\ net_pbft = {}
    /\ state = [status |-> "None", pk_idx |-> None, slots |-> None,
                view_number |-> next_view_number(blockchain),
                active_view_change |-> None, proposed_extrinsics |-> {}]
    /\ tasks = <<>>
    /\ sent = NoSent
    /\ macro_pushed = <<>>
    /\ macro_block = None
    /\ panicked = FALSE
    /\ pbft_proposal_limit = 0
    /\ agent_forwarded = {}
    /\ last_accept = None
    /\ agent_log = NoAgentLog

\* The handlers on the way of a macro block: chain events, completed view
\* changes, the proposal, the PBFT round and the push, with the peers' blocks
MacroPushNext ==
    \/ OnConsensusEstablished
    \/ \E i \in DOMAIN tasks : OnBlockchainEvent(i)
    \/ \E view_change \in ViewChanges : OnViewChangeComplete(view_change)
    \/ \E round \in net_pbft : OnPbftPrepareComplete(round)
    \/ \E round \in net_pbft : OnPbftComplete(round)
    \/ PushMacroBlock
    \/ \E i \in DOMAIN tasks : ProduceMacroBlock(i)
    \/ PeerPush

\* A validator list in which this validator holds the upper half of the slots:
\* the first micro block is its to produce in view 1, not in view 0
UpperHalfValidators ==
    <<[num_slots |-> 2, key |-> "other"], [num_slots |-> SLOTS - 2, key |-> "self"]>>

\* Validator::new for the holder of the upper half of the slots
UpperHalfInit ==
    /\ blockchain = [head |-> GenesisHeader, macro_head |-> GenesisHeader,
                     block |-> GenesisBlock,
                     validators |-> UpperHalfValidators,
                     staked |-> TRUE]
    /\ net_pbft = {}
    /\ state = [status |-> "None", pk_idx |-> None, slots |-> None,
                view_number |-> next_view_number(blockchain),
                active_view_change |-> None, proposed_extrinsics |-> {}]
    /\ tasks = <<>>
    /\ sent = NoSent
    /\ macro_pushed = <<>>
    /\ macro_block = None
    /\ panicked = FALSE
    /\ pbft_proposal_limit = 0
    /\ agent_forwarded = {}
    /\ last_accept = None
    /\ agent_log = NoAgentLog

\* The handlers on the way of this validator's blocks, while consensus lasts
UpperHalfNext ==
    \/ OnConsensusEstablished
    \/ OnBlockTimeout
    \/ \E i \in DOMAIN tasks : OnBlockchainEvent(i)
    \/ \E view_change \in ViewChanges : OnViewChangeComplete(view_change)
    \/ \E round \in net_pbft : OnPbftPrepareComplete(round)
    \/ \E round \in net_pbft : OnPbftComplete(round)
    \/ PushMacroBlock
    \/ \E i \in DOMAIN tasks : ProduceMacroBlock(i)
    \/ \E i \in DOMAIN tasks : ProduceMicroBlockRead(i)
    \/ \E i \in DOMAIN tasks : ProduceMicroBlockBuild(i)
    \/ \E i \in DOMAIN tasks : ProduceMicroBlockPush(i)
    \/ PeerPush

\* The agent of one peer, with the validator's status and the chain's head changing
AgentNext ==
    \/ \E block_number \in 1..(VMaxHeight + 1), view \in 0..VMaxView :
          OnPbftProposalMessage(PeerProposal(blockchain, block_number, view, 1))
    \/ RateWindowElapsed
    \/ OnConsensusEstablished
    \/ OnConsensusLost
    \/ PeerPush
    \/ \E i \in DOMAIN tasks : OnBlockchainEvent(i)

\* The chain a restarted node finds: the genesis block and one micro block
SyncedChain(validators, staked) ==
    LET genesis == [head |-> GenesisHeader, macro_head |-> GenesisHeader,
                    block |-> GenesisBlock, validators |-> validators,
                    staked |-> staked]
    IN  Extend(genesis,
               MicroBlock(next_micro_header(genesis, 0, 0), {}, None,
                          get_next_block_producer(genesis, 0)))

\* Validator::new and ValidatorAgent::new on a chain that has a micro head
RateInit ==
    /\ \E validators \in SampleValidators, staked \in BOOLEAN :
          /\ get_pk_idx_and_slots([validators |-> validators]) # None => staked
          /\ blockchain = SyncedChain(validators, staked)
    /\ net_pbft = {}
    /\ state = [status |-> "None", pk_idx |-> None, slots |-> None,
                view_number |-> next_view_number(blockchain),
                active_view_change |-> None, proposed_extrinsics |-> {}]
    /\ tasks = <<>>
    /\ sent = NoSent
    /\ macro_pushed = <<>>
    /\ macro_block = None
    /\ panicked = FALSE
    /\ pbft_proposal_limit = 0
    /\ agent_forwarded = {}
    /\ last_accept = None
    /\ agent_log = NoAgentLog

\* One peer's proposals reaching its agent while the rate limiter's windows pass
RateNext ==
    \/ \E block_number \in 1..(VMaxHeight + 1), view \in 0..VMaxView,
          time \in ProposalTimes :
          OnPbftProposalMessage(PeerProposal(blockchain, block_number, view, time))
    \/ RateWindowElapsed

\* ------------------------------------------------------------------
\* Validator agent: inbound view-change updates
\* ------------------------------------------------------------------

VcmMaxHeight == 4

\* LevelUpdateMessage<ViewChange>: the tag names the view change, the update
\* carries the aggregate of the given level
LevelUpdateMessage(tag, level) == [tag |-> tag, level |-> level]

VcmUpdates ==
    {LevelUpdateMessage(ViewChange(block_number, new_view_number), level) :
        block_number \in 0..(VcmMaxHeight + 3), new_view_number \in 1..2, level \in 0..1}

on_view_change_message_head_epoch(block_number, update_message) ==
    LET blockchain_epoch  == epoch_at(block_number)
        view_change_epoch == epoch_at(update_message.tag.block_number)
    IN  IF view_change_epoch > blockchain_epoch THEN None
        ELSE IF view_change_epoch < blockchain_epoch THEN None
        ELSE Some(update_message)

\* ValidatorAgent::on_view_change_message: the event it notifies, if any
on_view_change_message(block_number, update_message) ==
    LET blockchain_epoch  == epoch_at(block_number + 1)
        view_change_epoch == epoch_at(update_message.tag.block_number)
    IN  IF view_change_epoch > blockchain_epoch THEN None
        ELSE IF view_change_epoch < blockchain_epoch THEN None
        ELSE Some(update_message)

VcmIdle ==
    /\ vcm_block_number = 0
    /\ vcm_event = None
    /\ vcm_last = None

VcmInit == VcmIdle

\* The peer sends a view-change update: ValidatorAgent::on_view_change_message
VcmOnViewChangeMessage ==
    /\ \E update_message \in VcmUpdates :
          LET event == on_view_change_message(vcm_block_number, update_message)
          IN  /\ vcm_event' = event
              /\ vcm_last' = Some(update_message)
    /\ UNCHANGED <<vcm_block_number, vcm_others>>

\* The chain's head advances by one block
VcmBlock ==
    /\ vcm_block_number < VcmMaxHeight
    /\ vcm_block_number' = vcm_block_number + 1
    /\ UNCHANGED <<vcm_event, vcm_last, vcm_others>>

VcmNext ==
    \/ VcmOnViewChangeMessage
    \/ VcmBlock

\* ------------------------------------------------------------------
\* Validator: dispatch of validator-network events
\* ------------------------------------------------------------------

NdMaxView == 2

NdForkProofs == 1..1

NdHashes == 1..1

\* ValidatorNetworkEvent: ForkProof(fork proof), ViewChangeComplete(view change
\* to the given view at head + 1), PbftProposal / PbftPrepareComplete /
\* PbftComplete(block hash)
NdEvents ==
    [type : {"ForkProof"}, arg : NdForkProofs]
        \cup [type : {"ViewChangeComplete"}, arg : 1..NdMaxView]
        \cup [type : {"PbftProposal", "PbftPrepareComplete", "PbftComplete"},
              arg : NdHashes]

\* The validator sets an epoch can open with, on a chain with a micro head
NdChains ==
    {SyncedChain(validators, staked) :
        validators \in SampleValidators, staked \in BOOLEAN}

\* on_slot_change(SlotChange::ViewChange(view_change, proof)), the match arm:
\* the state after it and the (view_number, view_change_proof) it yields
on_slot_change_view_change(st, view_change) ==
    LET cleared == IF st.active_view_change = Some(view_change)
                   THEN None ELSE st.active_view_change
    IN  IF st.view_number < view_change.new_view_number
        THEN [state |-> [st EXCEPT !.active_view_change = cleared,
                                   !.view_number = view_change.new_view_number],
              view_number |-> view_change.new_view_number,
              view_change_proof |-> Some(view_change)]
        ELSE [state |-> [st EXCEPT !.active_view_change = cleared],
              view_number |-> st.view_number,
              view_change_proof |-> None]

NdIdle ==
    /\ nd_chain = None
    /\ nd_state = None
    /\ nd_event = None
    /\ nd_sent = NoSent
    /\ nd_blocks = {}
    /\ nd_tasks = <<>>
    /\ nd_panicked = FALSE

\* Validator::new followed by on_consensus_established on some chain
NdInit ==
    /\ \E chain \in NdChains :
          /\ get_pk_idx_and_slots(chain) # None => chain.staked
          /\ nd_chain = chain
          /\ nd_state = init_epoch([status |-> "None", pk_idx |-> None, slots |-> None,
                                    view_number |-> 0, active_view_change |-> None,
                                    proposed_extrinsics |-> {},
                                    fork_proof_pool |-> {}], chain)
    /\ nd_event = None
    /\ nd_sent = NoSent
    /\ nd_blocks = {}
    /\ nd_tasks = <<>>
    /\ nd_panicked = FALSE

\* on_validator_network_event up to the end of its first block: the status is
\* read under state.write(), an inactive validator returns, and the guard is
\* dropped before the event is matched
NdStatusCheck(event) ==
    /\ nd_event = None
    /\ nd_event' = IF nd_state.status # "Active" THEN None ELSE Some(event)
    /\ UNCHANGED <<nd_chain, nd_state, nd_sent, nd_blocks, nd_tasks, nd_panicked, nd_others>>

\* on_validator_network_event from the match on: the handler of the event
NdHandle ==
    /\ nd_event # None
    /\ nd_event' = None
    /\ LET event == nd_event[1]
       IN  CASE event.type = "ForkProof" ->
                  /\ nd_state' = [nd_state EXCEPT !.fork_proof_pool =
                                       on_fork_proof(@, event.arg)]
                  /\ UNCHANGED <<nd_sent, nd_blocks, nd_tasks>>
             [] event.type = "ViewChangeComplete" ->
                  LET view_change == ViewChange(nd_chain.head.block_number + 1,
                                                event.arg)
                      changed == on_slot_change_view_change(nd_state, view_change)
                  IN  /\ nd_state' = changed.state
                      /\ nd_tasks' = spawn_if_producer(nd_tasks, nd_chain,
                                                       changed.view_number,
                                                       changed.view_change_proof)
                      /\ WithinTaskBounds(nd_tasks')
                      /\ UNCHANGED <<nd_sent, nd_blocks>>
             [] event.type = "PbftProposal" ->
                  /\ nd_sent' = on_pbft_proposal(nd_state, nd_sent, event.arg)
                  /\ UNCHANGED <<nd_state, nd_blocks, nd_tasks>>
             [] event.type = "PbftPrepareComplete" ->
                  /\ nd_sent' = on_pbft_prepare_complete(nd_state, nd_sent, event.arg)
                  /\ UNCHANGED <<nd_state, nd_blocks, nd_tasks>>
             [] event.type = "PbftComplete" ->
                  /\ IF event.arg \in nd_state.proposed_extrinsics
                     THEN /\ nd_state' = [nd_state EXCEPT !.proposed_extrinsics =
                                              remove(@, event.arg)]
                          /\ nd_blocks' = nd_blocks \cup {event.arg}
                     ELSE UNCHANGED <<nd_state, nd_blocks>>
                  /\ UNCHANGED <<nd_sent, nd_tasks>>
    /\ UNCHANGED <<nd_chain, nd_panicked, nd_others>>

\* The view-change timer fires: on_block_timeout -> start_view_change
NdBlockTimeout ==
    /\ nd_state.view_number < NdMaxView
    /\ LET started == start_view_change(nd_state, nd_chain)
       IN  /\ nd_state' = started.state
           /\ nd_sent' = IF started.signed = None THEN nd_sent
                          ELSE [nd_sent EXCEPT !.signed_view_changes =
                                    @ \cup {started.signed[1]}]
    /\ UNCHANGED <<nd_chain, nd_event, nd_blocks, nd_tasks, nd_panicked, nd_others>>

\* Validator::on_consensus_lost
NdConsensusLost ==
    /\ nd_state' = [nd_state EXCEPT !.status = "None"]
    /\ UNCHANGED <<nd_chain, nd_event, nd_sent, nd_blocks, nd_tasks, nd_panicked, nd_others>>

\* on_blockchain_event(Finalized) for the macro block that opens an epoch:
\* init_epoch on the validators of the epoch, the common tail of the handler,
\* and on_slot_change(NextBlock) when the validator is active
NdFinalized ==
    /\ \E chain \in NdChains :
          /\ get_pk_idx_and_slots(chain) # None => chain.staked
          /\ nd_chain' = chain
          /\ nd_state' = after_blockchain_event(init_epoch(nd_state, chain), chain)
          /\ nd_tasks' = IF nd_state'.status = "Active"
                         THEN spawn_if_producer(nd_tasks, chain,
                                                next_view_number(chain), None)
                         ELSE nd_tasks
    /\ WithinTaskBounds(nd_tasks')
    /\ UNCHANGED <<nd_event, nd_sent, nd_blocks, nd_panicked, nd_others>>

\* A spawned production task runs at a macro position: produce_macro_block
\* stores the body of its proposal under the proposal's hash and then takes
\* pk_idx with expect, which panics on None
NdTaskRuns ==
    /\ nd_tasks # <<>>
    /\ get_next_block_type(nd_chain) = "Macro"
    /\ nd_tasks' = Tail(nd_tasks)
    /\ \E hash \in NdHashes :
          nd_state' = [nd_state EXCEPT !.proposed_extrinsics = @ \cup {hash}]
    /\ nd_panicked' = (nd_panicked \/ nd_state.pk_idx = None)
    /\ UNCHANGED <<nd_chain, nd_event, nd_sent, nd_blocks, nd_others>>

NdNext ==
    \/ \E event \in NdEvents : NdStatusCheck(event)
    \/ NdHandle
    \/ NdBlockTimeout
    \/ NdConsensusLost
    \/ NdFinalized
    \/ NdTaskRuns

\* ------------------------------------------------------------------
\* Specifications: one per component, the other components at rest
\* ------------------------------------------------------------------

\* ------------------------------------------------------------------
\* Validator: the tasks of the blockchain listener
\* (validator/src/validator.rs, init_listeners and on_blockchain_event)
\* ------------------------------------------------------------------

\* Micro blocks above the last macro block
EvMaxHeight == 2

\* Events whose task is spawned and has not run
EvMaxTasks == 2

EvBlocks == [type : {"Micro"}, fork_proofs : SUBSET ForkProofKeys]

\* The fork proofs included in the blocks of a chain
RECURSIVE IncludedForkProofs(_)
IncludedForkProofs(chain) ==
    IF chain = <<>> THEN {}
    ELSE chain[1].fork_proofs \cup IncludedForkProofs(Tail(chain))

EvIdle ==
    /\ ev_chain = <<>>
    /\ ev_tasks = <<>>
    /\ ev_pool = {}
    /\ ev_sequential = {}

\* The fork proofs received so far are in the pool; no block is above the macro head
EvInit ==
    /\ ev_chain = <<>>
    /\ ev_tasks = <<>>
    /\ ev_pool \in SUBSET ForkProofKeys
    /\ ev_sequential = ev_pool

\* Blockchain::push extends the main chain and notifies Extended; the listener
\* clones the event and spawns on_blockchain_event(e). A block includes no
\* fork proof that a block below it includes.
EvPushExtended ==
    /\ Len(ev_chain) < EvMaxHeight
    /\ Len(ev_tasks) < EvMaxTasks
    /\ \E block \in EvBlocks :
          /\ block.fork_proofs \cap IncludedForkProofs(ev_chain) = {}
          /\ ev_chain' = Append(ev_chain, block)
          /\ ev_tasks' = Append(ev_tasks, BlockchainEvent("Extended", <<>>, <<block>>))
          /\ ev_sequential' = on_blockchain_extended(ev_sequential, block)
    /\ UNCHANGED <<ev_pool, ev_others>>

\* Blockchain::push replaces the head by a block of a fork and notifies
\* Rebranched(old_chain, new_chain)
EvPushRebranched ==
    /\ ev_chain # <<>>
    /\ Len(ev_tasks) < EvMaxTasks
    /\ \E block \in EvBlocks \ {Last(ev_chain)} :
          /\ block.fork_proofs \cap IncludedForkProofs(Front(ev_chain)) = {}
          /\ ev_chain' = Append(Front(ev_chain), block)
          /\ ev_tasks' = Append(ev_tasks, BlockchainEvent("Rebranched",
                                                         <<Last(ev_chain)>>, <<block>>))
          /\ ev_sequential' = on_blockchain_rebranched(ev_sequential,
                                                       <<Last(ev_chain)>>, <<block>>)
    /\ UNCHANGED <<ev_pool, ev_others>>

\* One of the spawned tasks runs on_blockchain_event: the executor runs the
\* tasks on its worker threads in no fixed order, the state's write lock makes
\* each handler one step.
EvTaskRuns(i) ==
    /\ LET event == ev_tasks[i]
       IN  ev_pool' = IF event.type = "Extended"
                      THEN on_blockchain_extended(ev_pool, event.new_chain[1])
                      ELSE on_blockchain_rebranched(ev_pool, event.old_chain,
                                                    event.new_chain)
    /\ ev_tasks' = RemoveAt(ev_tasks, i)
    /\ UNCHANGED <<ev_chain, ev_sequential, ev_others>>

EvNext ==
    \/ EvPushExtended
    \/ EvPushRebranched
    \/ \E i \in DOMAIN ev_tasks : EvTaskRuns(i)

\* ------------------------------------------------------------------
\* Reward pot: an epoch committed at once
\* (blockchain-albatross/src/reward_registry/reward_pot.rs, commit_epoch)
\* ------------------------------------------------------------------

\* View numbers of the blocks of the epoch
CeMaxView == 2

\* Epochs the committed epoch is drawn from
CeMaxEpoch == 2

\* policy::first_block_of
first_block_of(epoch) == (epoch - 1) * BLOCKS_PER_EPOCH + 1

RECURSIVE BlockRewards(_, _)
BlockRewards(first, last) ==
    IF first > last THEN 0 ELSE block_reward_at(first) + BlockRewards(first + 1, last)

\* RewardPot::commit_epoch
commit_epoch(db, block_number, transactions, slashed_set, slots) ==
    LET reward == BlockRewards(first_block_of(epoch_at(block_number)), block_number)
                      + SeqSum(transactions)
                      + slots.slash_fine * Cardinality(slashed_set)
    IN  TxnPut(TxnPut(db, CURRENT_EPOCH_KEY, 0), PREVIOUS_EPOCH_KEY, reward)

\* The slot that is slashed for not producing block block_number in view view_number
SkippedSlot(block_number, view_number) == (block_number + view_number) % SLOTS

\* The slots slashed by the view changes of a block
ViewChangeSlots(block_number, prev_view_number, view_number) ==
    {SkippedSlot(block_number, view) : view \in prev_view_number..(view_number - 1)}

\* The BitSet of the slots slashed in the epoch: by the fork proofs of its
\* micro block and by the view changes of its blocks
slashed_set(epoch) ==
    epoch.fork_proof_slots
        \cup ViewChangeSlots(epoch.micro.block_number, 0, epoch.micro.view_number)
        \cup ViewChangeSlots(epoch.macro.block_number, epoch.micro.view_number,
                             epoch.macro.view_number)

CeStores == {<<>>, [k \in {CURRENT_EPOCH_KEY, PREVIOUS_EPOCH_KEY} |->
                       IF k = CURRENT_EPOCH_KEY THEN 0 ELSE 5]}

\* The epochs of BLOCKS_PER_EPOCH = 2 blocks: a micro block and the macro block
\* that closes the epoch; a fork proof of the micro block slashes one slot
CeEpochs ==
    {epoch_blocks \in
      {[db |-> db, slots |-> slots, fork_proof_slots |-> fork_proof_slots,
        micro |-> [block_number |-> first_block_of(epoch), view_number |-> micro_view,
                   transactions |-> transactions,
                   fork_proofs |-> Cardinality(fork_proof_slots)],
        macro |-> [block_number |-> first_block_of(epoch) + 1,
                   view_number |-> macro_view]] :
          db \in CeStores, slots \in [slash_fine : SampleSlashFines],
          fork_proof_slots \in {proofs \in SUBSET (0..(SLOTS - 1)) :
                                    Cardinality(proofs) <= MaxForkProofs},
          epoch \in 1..CeMaxEpoch, micro_view \in 0..CeMaxView,
          transactions \in SampleTransactions, macro_view \in 0..CeMaxView} :
        epoch_blocks.macro.view_number >= epoch_blocks.micro.view_number}

CeNoIn ==
    [db |-> <<>>, slots |-> [slash_fine |-> 1], fork_proof_slots |-> {},
     micro |-> [block_number |-> 1, view_number |-> 0, transactions |-> <<>>,
                fork_proofs |-> 0],
     macro |-> [block_number |-> 2, view_number |-> 0]]

CeIdle ==
    /\ ce_in = CeNoIn
    /\ ce_out = None

CeInit ==
    /\ ce_in \in CeEpochs
    /\ ce_out = None

\* One node applies the blocks of the epoch (commit_micro_block, then
\* commit_macro_block), another one syncs the epoch (commit_epoch)
CeCommit ==
    /\ ce_out = None
    /\ LET micro == commit_micro_block(ce_in.db, ce_in.micro, ce_in.slots, 0)
           blocks == commit_macro_block(micro, ce_in.macro, ce_in.slots,
                                        ce_in.micro.view_number)
           epoch == commit_epoch(ce_in.db, ce_in.macro.block_number,
                                 ce_in.micro.transactions, slashed_set(ce_in),
                                 ce_in.slots)
       IN  ce_out' = Some([blocks |-> blocks, epoch |-> epoch])
    /\ UNCHANGED <<ce_in, ce_others>>

CeNext == CeCommit

XIdle == ExIdle /\ DbIdle /\ LkIdle /\ SyncIdle /\ VcmIdle /\ NdIdle /\ EvIdle /\ CeIdle

InitRewardPot == RpInit /\ PrIdle /\ PoolIdle /\ AgIdle /\ VIdle /\ XIdle

SpecRewardPot == InitRewardPot /\ [][RpNext]_vars

InitProducer == PrInit /\ RpIdle /\ PoolIdle /\ AgIdle /\ VIdle /\ XIdle

SpecProducer == InitProducer /\ [][PrNext]_vars

InitPool == PoolInit /\ RpIdle /\ PrIdle /\ AgIdle /\ VIdle /\ XIdle

SpecPool == InitPool /\ [][PoolNext]_vars

InitAggregator == AgInit /\ RpIdle /\ PrIdle /\ PoolIdle /\ VIdle /\ XIdle

SpecAggregator == InitAggregator /\ [][AgNext]_vars

InitValidator == VInit /\ RpIdle /\ PrIdle /\ PoolIdle /\ AgIdle /\ XIdle

Spec == InitValidator /\ [][VNext]_vars

SpecAgent == InitValidator /\ [][AgentNext]_vars

\* The executor runs every spawned task: a task that can take its next step
\* is not left waiting forever (tokio::spawn, validator.rs:167 and 396)
TaskFairness ==
    /\ WF_vars(\E i \in DOMAIN tasks : OnBlockchainEvent(i))
    /\ WF_vars(\E i \in DOMAIN tasks : ProduceMacroBlock(i))
    /\ WF_vars(\E i \in DOMAIN tasks : ProduceMicroBlockRead(i))
    /\ WF_vars(\E i \in DOMAIN tasks : ProduceMicroBlockBuild(i))
    /\ WF_vars(\E i \in DOMAIN tasks : ProduceMicroBlockPush(i))

SpecLeader == InitValidator /\ [][LeaderNext]_vars /\ TaskFairness

InitMacroPush == MacroPushInit /\ RpIdle /\ PrIdle /\ PoolIdle /\ AgIdle /\ XIdle

SpecMacroPush == InitMacroPush /\ [][MacroPushNext]_vars

InitUpperHalf == UpperHalfInit /\ RpIdle /\ PrIdle /\ PoolIdle /\ AgIdle /\ XIdle

SpecUpperHalf == InitUpperHalf /\ [][UpperHalfNext]_vars

InitRate == RateInit /\ RpIdle /\ PrIdle /\ PoolIdle /\ AgIdle /\ XIdle

SpecRate == InitRate /\ [][RateNext]_vars

BaseIdle == RpIdle /\ PrIdle /\ PoolIdle /\ AgIdle /\ VIdle

InitExtrinsics == ExInit /\ BaseIdle /\ DbIdle /\ LkIdle /\ SyncIdle /\ VcmIdle /\ NdIdle /\ EvIdle /\ CeIdle

InitStore == DbInit /\ BaseIdle /\ ExIdle /\ LkIdle /\ SyncIdle /\ VcmIdle /\ NdIdle /\ EvIdle /\ CeIdle

InitLock == LkInit /\ BaseIdle /\ ExIdle /\ DbIdle /\ SyncIdle /\ VcmIdle /\ NdIdle /\ EvIdle /\ CeIdle

InitSync == SyncInit /\ BaseIdle /\ ExIdle /\ DbIdle /\ LkIdle /\ VcmIdle /\ NdIdle /\ EvIdle /\ CeIdle

InitViewChangeMessage == VcmInit /\ BaseIdle /\ ExIdle /\ DbIdle /\ LkIdle /\ SyncIdle /\ NdIdle /\ EvIdle /\ CeIdle

SpecViewChangeMessage == InitViewChangeMessage /\ [][VcmNext]_vars

InitDispatch == NdInit /\ BaseIdle /\ ExIdle /\ DbIdle /\ LkIdle /\ SyncIdle /\ VcmIdle /\ EvIdle /\ CeIdle

SpecDispatch == InitDispatch /\ [][NdNext]_vars

InitEvents == EvInit /\ BaseIdle /\ ExIdle /\ DbIdle /\ LkIdle /\ SyncIdle /\ VcmIdle /\ NdIdle /\ CeIdle

SpecEvents == InitEvents /\ [][EvNext]_vars

InitCommitEpoch == CeInit /\ BaseIdle /\ ExIdle /\ DbIdle /\ LkIdle /\ SyncIdle /\ VcmIdle /\ NdIdle /\ EvIdle

SpecCommitEpoch == InitCommitEpoch /\ [][CeNext]_vars

SpecSync == InitSync /\ [][SyncNext]_vars

SpecLock == InitLock /\ [][LkNext]_vars

SpecStore == InitStore /\ [][DbNext]_vars

SpecExtrinsics == InitExtrinsics /\ [][ExNext]_vars

\* ------------------------------------------------------------------
\* Claims about the reward pot
\* ------------------------------------------------------------------

\* The reward of a micro block as the documentation states it
MicroRewardStated(arg) ==
    block_reward_at(arg.block.block_number) + SeqSum(arg.block.transactions)
        + arg.slots.slash_fine
            * (arg.block.fork_proofs + arg.block.view_number - arg.prev_view_number)

MacroRewardStated(arg) ==
    block_reward_at(arg.block.block_number)
        + arg.slots.slash_fine * (arg.block.view_number - arg.prev_view_number)

RECURSIVE SumMicroRewards(_)
SumMicroRewards(applied) ==
    IF applied = <<>> THEN 0
    ELSE MicroRewardStated(applied[1]) + SumMicroRewards(Tail(applied))

\* C4: the stored current-epoch pot equals the sum of the rewards of the micro
\* blocks applied and not reverted since the last macro block (0 if none, also
\* before the first write).
C4_RewardPotInvariant == current_reward_pot(reward_pot) = SumMicroRewards(rp_applied)

\* A revert has left one of two applied micro blocks in the pot.
C4_Witness ==
    /\ rp_op = "revert_micro_block"
    /\ Len(rp_applied) = 1
    /\ rp_next = 2
    /\ current_reward_pot(reward_pot) > 0

\* C5: commit_micro_block adds exactly the stated reward to the current pot,
\* a revert_micro_block with the same arguments right after it restores the
\* value before the commit, and neither touches the previous-epoch pot.
C5_CommitAddsReward ==
    rp_op = "commit_micro_block" =>
        /\ current_reward_pot(reward_pot) = current_reward_pot(rp_before) + MicroRewardStated(rp_arg)
        /\ TxnGet(reward_pot, PREVIOUS_EPOCH_KEY) = TxnGet(rp_before, PREVIOUS_EPOCH_KEY)

C5_RevertRestores ==
    (rp_op = "commit_micro_block" /\ rp_op' = "revert_micro_block") =>
        /\ rp_arg' = rp_arg
        /\ current_reward_pot(reward_pot') = current_reward_pot(rp_before)
        /\ TxnGet(reward_pot', PREVIOUS_EPOCH_KEY) = TxnGet(rp_before, PREVIOUS_EPOCH_KEY)

C3_NextHeader ==
    pr_op \in {"next_micro_block", "next_macro_block_proposal"} =>
        LET header == pr_out[1]
            head   == pr_in.head
        IN  /\ header.block_number = head.block_number + 1
            /\ header.parent_hash = Hash(head)
            /\ header.timestamp =
                  (IF pr_in.timestamp > head.timestamp THEN pr_in.timestamp
                   ELSE head.timestamp + 1)
            /\ header.timestamp > head.timestamp
            /\ header.view_number = pr_in.view_number

\* A micro header was built on a non-genesis head with a timestamp argument
\* below the head's timestamp.
C3_Witness ==
    /\ pr_op = "next_micro_block"
    /\ pr_in.head.block_number > 0
    /\ pr_in.timestamp < pr_in.head.timestamp
    /\ pr_out[1].timestamp = pr_in.head.timestamp + 1

\* ------------------------------------------------------------------
\* Claims about the fork-proof pool
\* ------------------------------------------------------------------

AgValidFed ==
    {ag_fed[i] : i \in {j \in DOMAIN ag_fed :
        /\ ag_fed[j].genuine
        /\ \A signer \in ag_fed[j].signers : signer + 1 \in DOMAIN ag_registry}}

AgUnion == UNION {c.signers : c \in AgValidFed}

RECURSIVE AgWeight(_)
AgWeight(signers) ==
    IF signers = {} THEN 0
    ELSE LET i == CHOOSE x \in signers : TRUE
         IN  ag_registry[i + 1] + AgWeight(signers \ {i})

\* C9: whatever the order of the contributions, the contributing indices are
\* the union of the signer sets of the valid contributions fed (an index never
\* counts twice), and exactly one completion event has fired if the slot
\* count of that union reaches TWO_THIRD_SLOTS and none otherwise; a validator
\* that owns all SLOTS slots completes alone.
C9_AggregatorCommutes ==
    /\ ag_signers = AgUnion
    /\ ag_events = (IF AgWeight(AgUnion) >= TWO_THIRD_SLOTS THEN 1 ELSE 0)
    /\ (ag_registry = <<SLOTS>> /\ AgUnion = {0}) => ag_events = 1

\* A multi-signature overlapping an earlier individual signature completed
\* the aggregation, and a further contribution arrived afterwards.
C9_Witness ==
    /\ Len(ag_fed) = 3
    /\ ag_fed[1].kind = "Individual" /\ ag_fed[1].signers = {1} /\ ag_fed[1].genuine
    /\ ag_fed[2].kind = "Multi" /\ ag_fed[2].signers = {0, 1} /\ ag_fed[2].genuine
    /\ ag_fed[3].genuine
    /\ ag_registry = <<SLOTS - 2, 1, 1>>
    /\ ag_events = 1

\* ------------------------------------------------------------------
\* Claims about the validator and its agent
\* ------------------------------------------------------------------

\* C1: every micro block this validator produces is built with
\* block_number = head + 1, and the head the block was built on is still the
\* head when the block is pushed.
C1_BuiltOnHeadAtPush ==
    [][\A i \in DOMAIN tasks :
          /\ ProduceMicroBlockBuild(i)
                 => tasks'[i].block[1].header.block_number
                        = blockchain.head.block_number + 1
          /\ ProduceMicroBlockPush(i)
                 => tasks[i].block[1].header.parent_hash = Hash(blockchain.head)]_vars

\* C2: while the chain's next block number (head + 1) stays the same,
\* state.view_number never decreases.
C2_ViewNumberMonotonic ==
    [][blockchain'.head.block_number = blockchain.head.block_number
          => state'.view_number >= state.view_number]_vars

\* C7: this validator pushes at most one macro block per block_number (no two
\* calls of push_block carry a macro block of the same block_number), also
\* when it has produced several proposals for the block number and when
\* PbftComplete is delivered more than once for the same hash.
C7_OneMacroPushPerBlockNumber ==
    \A i, j \in DOMAIN macro_pushed :
        i # j => macro_pushed[i].block_number # macro_pushed[j].block_number

\* C8: once a proposal for block_number n and view_number v has been forwarded
\* by the agent and answered with this validator's prepare, another proposal
\* for n with a view_number of v or less is neither forwarded as a
\* PbftProposal event nor answered with a signed prepare.
C8_SecondProposalNotAccepted ==
    last_accept # None =>
        LET taken == last_accept[1]
        IN  (taken.forwarded \/ taken.prepared) =>
                \A header \in taken.accepted :
                    (header.block_number = taken.header.block_number
                        /\ header # taken.header)
                        => taken.header.view_number > header.view_number

\* ------------------------------------------------------------------
\* Claims about the block assembler
\* ------------------------------------------------------------------

\* The prefixes of the mempool's list that fit max_size
ExFittingPrefixes(out) ==
    {n \in 0..Len(ex_in.transactions) :
        TotalSize(SubSeq(ex_in.transactions, 1, n)) <= out.max_size}

RateProposals ==
    {PeerProposal(blockchain, block_number, view, time) :
        block_number \in 1..(VMaxHeight + 1), view \in 0..VMaxView,
        time \in ProposalTimes}

C13_ProducerLeavesStore ==
    /\ [][db_op' \notin {"push", "push_block"} => db_store' = db_store]_vars
    /\ [](db_txn # None <=> db_pc \in {"opened", "dummy_committed", "accounts_committed"})

\* A proposal has been returned whose state root is that of the scratch
\* transaction's accounts, not of the store's
C13_Witness ==
    /\ db_op = "next_macro_block_proposal"
    /\ db_pc = "idle"
    /\ db_out # None
    /\ db_out[1].state_root # accounts_hash(db_store.accounts)

\* ------------------------------------------------------------------
\* Claims about the validator's error handling
\* ------------------------------------------------------------------

\* C14: no sequence of network and chain events makes the validator panic; in
\* particular a failed push of the committed macro block is dropped or logged,
\* so the step that pushes it leaves the process running.
C14_MacroPushFailureHandled ==
    [][macro_block # None /\ macro_block' = None => ~panicked']_vars

\* ------------------------------------------------------------------
\* Claims about the validator's epoch state
\* ------------------------------------------------------------------

\* A handler that runs init_epoch takes a step: on_consensus_established, or
\* on_blockchain_event for a Finalized event
InitEpochStep ==
    \/ OnConsensusEstablished
    \/ \E i \in DOMAIN tasks :
          /\ tasks[i].kind = "event"
          /\ tasks[i].event[1].type = "Finalized"
          /\ OnBlockchainEvent(i)

\* C15: after init_epoch the validator is Active exactly when its key is in the
\* chain's current validator list, and then pk_idx is the (0-based) position
\* of the key's group in the list and slots the group's slot count; otherwise
\* pk_idx and slots are None and the status is Potential when the key has an
\* active stake, Synced when it has none.
C15_InitEpochStatus ==
    [][InitEpochStep =>
          LET validators == blockchain.validators
              own == {i \in DOMAIN validators : validators[i].key = "self"}
          IN  /\ state'.status = "Active" <=> own # {}
              /\ own # {} =>
                    \E i \in own :
                       /\ \A k \in own : i <= k
                       /\ state'.pk_idx = Some(i - 1)
                       /\ state'.slots = Some(validators[i].num_slots)
              /\ own = {} =>
                    /\ state'.pk_idx = None
                    /\ state'.slots = None
                    /\ state'.status = IF blockchain.staked THEN "Potential" ELSE "Synced"]_vars

\* init_epoch has made the validator Active with fewer than all slots
C15_Witness ==
    /\ state.status = "Active"
    /\ state.pk_idx = Some(0)
    /\ state.slots = Some(2)
    /\ Len(blockchain.validators) = 2

\* ------------------------------------------------------------------
\* Claims about the validator's state lock
\* ------------------------------------------------------------------

\* C16: no thread holds the validator's state lock, for reading or for
\* writing, at the moment it calls into the blockchain or the block producer.
C16_NoChainCallUnderStateLock ==
    \A t \in LkThreads : ~(LkHolds(t) /\ LkAt(t) \in {"chain", "lock_chain"})

\* A thread waits for the chain's lock, which another thread holds
LkWaitsForChain(t) ==
    LkAt(t) = "lock_chain" /\ lk_chain # None /\ lk_chain # Some(t)

\* A thread waits for the state lock, which another thread holds
LkWaitsForState(t) ==
    \/ LkAt(t) = "write" /\ (lk_state.writer # None \/ lk_state.readers # {})
    \/ LkAt(t) = "read" /\ lk_state.writer # None

\* C27: the blockchain-event listener, which runs on the notification stack
\* while the blockchain holds its push lock, neither acquires the validator
\* state lock nor calls the blockchain: a thread that holds the chain's lock
\* only clones the event, spawns the task or releases the lock. Consequently no
\* state is reached in which one thread holds the validator state lock and waits
\* for the chain's lock while another holds the chain's lock and waits for the
\* validator state lock.
C27_ListenerTakesNoLock ==
    /\ \A t \in LkThreads :
          lk_chain = Some(t) => LkAt(t) \in {"clone", "spawn", "release_chain"}
    /\ ~\E a, b \in LkThreads :
          /\ a # b
          /\ LkHolds(a) /\ LkWaitsForChain(a)
          /\ lk_chain = Some(b) /\ LkWaitsForState(b)

\* produce_macro_block holds the state lock and waits for the chain's lock while
\* a push by the other thread runs the listener under that lock
C27_Witness ==
    \E a, b \in LkThreads :
       /\ a # b
       /\ lk_thread[a].handler = "produce_macro_block"
       /\ LkHolds(a) /\ LkWaitsForChain(a)
       /\ lk_chain = Some(b)
       /\ LkAt(b) = "spawn"

\* ------------------------------------------------------------------
\* Claims about produced blocks and the chain
\* ------------------------------------------------------------------

\* The produced micro block of task i was built by next_micro_block on the
\* chain's present head, and carries the view-change proof for its block
\* number and view when its view is above the chain's next view number
BuiltOnHead(i) ==
    LET block == tasks[i].block[1]
    IN  /\ block.header.parent_hash = Hash(blockchain.head)
        /\ block.header.view_number > next_view_number(blockchain)
              => block.view_change_proof
                     = Some(ViewChange(blockchain.head.block_number + 1,
                                       block.header.view_number))

\* The push of task i's block has extended the chain by that block
ExtendedBy(i) ==
    LET block == tasks[i].block[1]
    IN  /\ PushOutcome(blockchain, block) = "Extended"
        /\ blockchain'.head = block.header
        /\ blockchain'.head.block_number = blockchain.head.block_number + 1
        /\ next_view_number(blockchain') = block.header.view_number

C19_IsolatedMacroSync ==
    /\ [](sync_fetched # None
            => \A i \in DOMAIN sync_fetched[1] :
                  /\ sync_fetched[1][i].extrinsics = None
                  /\ sync_fetched[1][i].justification # None
                  /\ MacroBlockVerify(sync_fetched[1][i]) = "Ok")
    /\ [](~sync_skipped
            => \A i \in DOMAIN sync_results :
                  /\ sync_results[i].result = "Extended"
                  /\ sync_results[i].block.header = sync_macros[i].header)
    /\ [](~sync_skipped /\ sync_results # <<>>
            => sync_b.head = sync_results[Len(sync_results)].block.header)

\* Two macro blocks of chain A, the second proposed after a view change and
\* pushed with its body, have both extended chain B
C19_Witness ==
    /\ ~sync_skipped
    /\ Len(sync_results) = 2
    /\ sync_results[2].result = "Extended"
    /\ sync_macros[2].extrinsics # None
    /\ sync_b.head.block_number = 2 * BLOCKS_PER_EPOCH
    /\ sync_b.head.view_number = 1

\* on_blockchain_event takes a step, for a Finalized, Extended or Rebranched event
BlockchainEventStep == \E i \in DOMAIN tasks : OnBlockchainEvent(i)

\* C20: after the validator has processed any BlockchainEvent, whatever its
\* status (None, Synced, Potential or Active), active_view_change is None (and
\* the BLOCK_TIMEOUT interval, which the handler restarts in the same branch
\* that clears active_view_change, has been restarted).
C20_EventClearsViewChange ==
    [][BlockchainEventStep => state'.active_view_change = None]_vars

\* The view change a block timeout starts from the current state
TimeoutViewChange ==
    ViewChange(blockchain.head.block_number + 1, state.view_number + 1)

\* C21: on each BLOCK_TIMEOUT expiry, if status = Active and active_view_change
\* = None, exactly one signed ViewChange {block_number = chain height + 1,
\* new_view_number = state.view_number + 1}, signed with the node's pk_idx, is
\* handed to the validator network and active_view_change is set to that tag;
\* in every other case nothing is sent and the state is unchanged. Hence a view
\* change is only ever started from a state whose active_view_change is None,
\* and leaves it set.
C21_TimeoutStartsOneViewChange ==
    /\ [][OnBlockTimeout =>
             IF state.status = "Active" /\ state.active_view_change = None
             THEN /\ state' = [state EXCEPT !.active_view_change = Some(TimeoutViewChange)]
                  /\ sent' = [sent EXCEPT
                                 !.view_changes = @ \cup {TimeoutViewChange},
                                 !.signed_view_changes =
                                     @ \cup {[message |-> TimeoutViewChange,
                                              signer_idx |-> state.pk_idx[1]]}]
             ELSE UNCHANGED <<state, sent>>]_vars
    /\ [][sent'.signed_view_changes # sent.signed_view_changes
             => /\ state.active_view_change = None
                /\ state'.active_view_change # None
                /\ Cardinality(sent'.signed_view_changes)
                       = Cardinality(sent.signed_view_changes) + 1]_vars

\* A view change for block 2 has been started after the one for block 1 was
\* cleared by a block
C21_Witness ==
    /\ state.status = "Active"
    /\ state.active_view_change = Some(ViewChange(2, 1))
    /\ [message |-> ViewChange(1, 1), signer_idx |-> 0] \in sent.signed_view_changes
    /\ [message |-> ViewChange(2, 1), signer_idx |-> 0] \in sent.signed_view_changes

\* C22: a completed view change whose new_view_number is not above
\* state.view_number, delivered to an Active validator, leaves view_number
\* unchanged and leads to no leader check or block production: no production
\* task is spawned on its behalf. (For state.view_number < new_view_number the
\* view number becomes new_view_number and the slot change is acted on.)
C22_StaleViewChangeInert ==
    [][\A view_change \in ViewChanges :
          OnViewChangeComplete(view_change) /\ state.status = "Active"
          => IF state.view_number < view_change.new_view_number
             THEN state'.view_number = view_change.new_view_number
             ELSE /\ state'.view_number = state.view_number
                  /\ tasks' = tasks]_vars

C24_InvalidProposalKeepsBudget ==
    [][\A proposal \in RateProposals :
          OnPbftProposalMessage(proposal)
          => LET valid == /\ proposal.header.block_number > blockchain.head.block_number
                          /\ epoch_at(proposal.header.block_number)
                                = epoch_at(blockchain.head.block_number)
                 admitted == note_single(pbft_proposal_limit)
             IN  /\ agent_log'.forwarded = agent_log.forwarded + 1 <=> valid /\ admitted
                 /\ ~valid => /\ agent_log'.forwarded = agent_log.forwarded
                              /\ pbft_proposal_limit' = pbft_proposal_limit]_vars

\* C25: on commit-quorum (PbftComplete) for a proposal, an Active validator
\* assembles the macro block {proposal.header, the completed proof} for pushing
\* to the blockchain, whether the body is stored locally in
\* proposed_extrinsics or missing (then with body None).
C25_CommitQuorumPushes ==
    [][\A round \in net_pbft :
          OnPbftComplete(round) /\ state.status = "Active"
          => /\ macro_block' # None
             /\ macro_block'[1].header = round.header]_vars

\* The fork proofs in the micro blocks of a chain segment
RECURSIVE ProofsOf(_)
ProofsOf(chain) ==
    IF chain = <<>> THEN {}
    ELSE (IF chain[1].type = "Micro" THEN chain[1].fork_proofs ELSE {})
             \cup ProofsOf(Tail(chain))

C28_PbftPhaseOrder ==
    [][/\ sent'.commits # sent.commits
          => \E round \in net_pbft :
                /\ OnPbftPrepareComplete(round)
                /\ sent'.commits = sent.commits \cup {round.header}
                /\ [header |-> round.header, phase |-> "prepared"] \in net_pbft'
       /\ sent'.prepares # sent.prepares
          => /\ last_accept' # None
             /\ last_accept'[1].prepared
             /\ sent'.prepares = sent.prepares \cup {last_accept'[1].header}
             /\ [header |-> last_accept'[1].header, phase |-> "proposed"] \in net_pbft'
             /\ sent'.commits = sent.commits]_vars

C28_Witness ==
    \E round \in net_pbft :
       /\ round.phase = "prepared"
       /\ round.header \in sent.commits
       /\ round.header \in sent.prepares

\* ------------------------------------------------------------------
\* Claims about validator-network events and the validator's status
\* ------------------------------------------------------------------

\* A step of on_validator_network_event (its status check or the handler it
\* dispatches to) or of on_block_timeout
NdNetworkOrTimeoutStep ==
    \/ \E event \in NdEvents : NdStatusCheck(event)
    \/ NdHandle
    \/ NdBlockTimeout

\* C29: a validator whose status is not Active does nothing on a
\* validator-network event or a block timeout: every step of
\* on_validator_network_event or on_block_timeout taken while the status is
\* None, Synced or Potential leaves ValidatorState (the fork-proof pool
\* included) unchanged, signs nothing, pushes no block and spawns no production.
C29_InactiveValidatorInert ==
    [][NdNetworkOrTimeoutStep /\ nd_state.status # "Active"
          => /\ nd_state' = nd_state
             /\ nd_sent' = nd_sent
             /\ nd_blocks' = nd_blocks
             /\ nd_tasks' = nd_tasks]_vars

\* ------------------------------------------------------------------
\* Claims about the leader's block production
\* ------------------------------------------------------------------

ProduceCount(tks) == Cardinality(TasksOfKind(tks, "produce"))

ProducePending == ProduceCount(tasks) > 0

\* ConsensusEstablished or a blockchain event is handled
SlotChangeStep ==
    \/ OnConsensusEstablished
    \/ \E i \in DOMAIN tasks : OnBlockchainEvent(i)

\* A production task ends: produce_macro_block or produce_micro_block returns
ProductionEnds ==
    \/ \E i \in DOMAIN tasks : ProduceMacroBlock(i)
    \/ \E i \in DOMAIN tasks : ProduceMicroBlockPush(i)

\* The push of the micro block task i has built lies beyond the explored
\* heights or numbers of tasks
PushCapped(i) ==
    /\ tasks[i].pc = "built"
    /\ LET block == tasks[i].block[1]
       IN  \/ /\ PushOutcome(blockchain, block) = "Extended"
              /\ blockchain.head.block_number >= VMaxHeight
           \/ ~WithinTaskBounds(Notified(RemoveAt(tasks, i), blockchain, block))

\* Every pending production task waits at such a push
ProductionCapped ==
    \A i \in TasksOfKind(tasks, "produce") : PushCapped(i)

IsNextLeader ==
    get_next_block_producer(blockchain, next_view_number(blockchain)) = "self"

C31_PkIdxExpectSucceeds ==
    /\ nd_state.status = "Active"
          => nd_state.pk_idx # None /\ nd_state.slots # None
    /\ ~nd_panicked

\* ------------------------------------------------------------------
\* Claims about the view number of produced blocks
\* ------------------------------------------------------------------

\* C32: the view number a production task reads from state.view_number and
\* hands to next_micro_block / next_macro_block_proposal is the view number
\* on_slot_change handed to get_next_block_producer when it spawned the task.
C32_ProducedViewIsLeaderView ==
    [][\A i \in DOMAIN tasks :
          ProduceMicroBlockRead(i) \/ ProduceMacroBlock(i)
              => state.view_number = tasks[i].leader_view]_vars

\* C33: a micro block this validator builds with a view number above the
\* chain's next_view_number() carries the view change proof of exactly its
\* block number and view number.
C33_HigherViewCarriesProof ==
    [][\A i \in DOMAIN tasks :
          ProduceMicroBlockBuild(i)
              => LET block == tasks'[i].block[1]
                 IN  block.header.view_number > next_view_number(blockchain)
                        => block.view_change_proof
                               = Some(ViewChange(block.header.block_number,
                                                 block.header.view_number))]_vars

\* ------------------------------------------------------------------
\* Claims about the view change in progress
\* ------------------------------------------------------------------

\* C34: whenever active_view_change is Some(vc), vc is the view change of
\* (chain height + 1, state.view_number + 1).
C34_ActiveViewChangeIsNext ==
    state.active_view_change # None
        => state.active_view_change[1]
               = ViewChange(blockchain.head.block_number + 1, state.view_number + 1)

\* C35: the completion of a view change whose block number is not the chain
\* height + 1 leaves state.view_number as it is and spawns no production task.
C35_StaleViewChangeIgnored ==
    [][\A view_change \in ViewChanges :
          /\ OnViewChangeComplete(view_change)
          /\ view_change.block_number # blockchain.head.block_number + 1
          => /\ state'.view_number = state.view_number
             /\ tasks' = tasks]_vars

\* ------------------------------------------------------------------
\* Claims about the tasks of the blockchain listener
\* ------------------------------------------------------------------

\* C36: once every pending blockchain-event task has run, the fork-proof pool
\* is the pool that results from applying the events in the order the chain
\* emitted them, and it holds no fork proof that a block of the main chain
\* includes.
C36_EventsTakeEffectInOrder ==
    ev_tasks = <<>>
        => /\ ev_pool = ev_sequential
           /\ ev_pool \cap IncludedForkProofs(ev_chain) = {}

\* C37: while the head is the block a macro proposal of this validator was
\* built on and the proposal's round has not committed, the body of the
\* proposal is in proposed_extrinsics.
C37_ProposedBodyRetained ==
    \A round \in net_pbft :
        /\ round.phase \in {"proposed", "prepared"}
        /\ SlotOwner(blockchain.validators, round.header.block_number,
                     round.header.view_number) = "self"
        /\ round.header.parent_hash = Hash(blockchain.head)
        => round.header \in state.proposed_extrinsics

\* ------------------------------------------------------------------
\* Claims about the epoch committed at once
\* ------------------------------------------------------------------

\* C38: commit_epoch writes the pair (current = 0, previous) that
\* commit_micro_block for the micro block of the epoch followed by
\* commit_macro_block writes.
C38_CommitEpochEqualsBlocks ==
    ce_out # None => ce_out[1].epoch = ce_out[1].blocks

\* ------------------------------------------------------------------
\* Claims about the status without consensus
\* ------------------------------------------------------------------

\* C39: the status leaves None only in a step of on_consensus_established;
\* between ConsensusLost and the next ConsensusEstablished it stays None
\* whatever blockchain events are processed.
C39_NoneUntilEstablished ==
    [][state.status = "None" /\ state'.status # "None" => OnConsensusEstablished]_vars

\* ------------------------------------------------------------------
\* Claims about the arithmetic of the reward computation
\* ------------------------------------------------------------------

\* C40: when produce_macro_block has next_macro_header commit its dummy block,
\* the view number handed in by the validator is not below
\* blockchain.view_number(), so that the subtraction of
\* reward_for_macro_block does not wrap.
C40_RewardViewDifferenceNoWrap ==
    [][\A i \in DOMAIN tasks :
          ProduceMacroBlock(i)
              => /\ state.view_number >= blockchain.head.view_number
                 /\ U32Sub(state.view_number, blockchain.head.view_number)
                        = state.view_number - blockchain.head.view_number]_vars

====
